---- MODULE Spec2Model ----
(***************************************************************************)
(* Conversation orchestration engine of the voice banking agent:           *)
(* the websocket session loop, the LangGraph workflow                      *)
(* (router, gate, agent, then tools, gate, agent repeated), the tool       *)
(* registry and the JSON customer store.                                   *)
(*                                                                         *)
(* Text is modelled as a sequence of one-character strings, so that the    *)
(* substring tests, lower(), split() and the regular expression of the     *)
(* source are computed rather than assumed.                                *)
(***************************************************************************)
EXTENDS Naturals, Integers, Sequences, FiniteSets, TLC

(***************************************************************************)
(* Python text primitives                                                  *)
(***************************************************************************)

\* Python's None (no text is equal to it: every element of a text is one character)
NoneVal == <<"<None>">>

\* None where an object (a message, a customer, a response) is expected
NoneRec == [none |-> TRUE]

\* truthiness of an optional string: None and "" are falsy
Truthy(x) == x # NoneVal /\ x # <<>>

UpperToLower ==
  "A" :> "a" @@ "B" :> "b" @@ "C" :> "c" @@ "D" :> "d" @@ "E" :> "e" @@ "F" :> "f" @@
  "G" :> "g" @@ "H" :> "h" @@ "I" :> "i" @@ "J" :> "j" @@ "K" :> "k" @@ "L" :> "l" @@
  "M" :> "m" @@ "N" :> "n" @@ "O" :> "o" @@ "P" :> "p" @@ "Q" :> "q" @@ "R" :> "r" @@
  "S" :> "s" @@ "T" :> "t" @@ "U" :> "u" @@ "V" :> "v" @@ "W" :> "w" @@ "X" :> "x" @@
  "Y" :> "y" @@ "Z" :> "z"

\* str.lower()
Lower(t) == [i \in 1..Len(t) |-> IF t[i] \in DOMAIN UpperToLower THEN UpperToLower[t[i]] ELSE t[i]]

\* `p in t` for strings
Contains(t, p) == \E i \in 0..(Len(t) - Len(p)) : \A j \in 1..Len(p) : t[i + j] = p[j]

\* any(p in t for p in ps)
ContainsAny(t, ps) == \E p \in ps : Contains(t, p)

Whitespace == {" ", "\n"}
Digits == {"0","1","2","3","4","5","6","7","8","9"}
WordChars == {"a","b","c","d","e","f","g","h","i","j","k","l","m","n","o","p","q","r","s","t","u","v","w","x","y","z","A","B","C","D","E","F","G","H","I","J","K","L","M","N","O","P","Q","R","S","T","U","V","W","X","Y","Z","0","1","2","3","4","5","6","7","8","9","_"}

\* str.strip()
Strip(t) ==
  LET ink == {i \in 1..Len(t) : t[i] \notin Whitespace}
  IN  IF ink = {} THEN <<>>
      ELSE LET lo == CHOOSE i \in ink : \A j \in ink : i <= j
               hi == CHOOSE i \in ink : \A j \in ink : j <= i
           IN  SubSeq(t, lo, hi)

\* the start positions of the words of t.split()
WordStarts(t) == {i \in 1..Len(t) : t[i] \notin Whitespace /\ (i = 1 \/ t[i - 1] \in Whitespace)}

\* the word of t.split() that starts at position i contains a digit
WordHasDigit(t, i) ==
  \E j \in i..Len(t) : t[j] \in Digits /\ \A k \in i..j : t[k] \notin Whitespace

\* s[-4:]
Last4(s) == IF Len(s) <= 4 THEN s ELSE SubSeq(s, Len(s) - 3, Len(s))

\* re.search(r"Customer ID: (\w+)", content): group 1 of the leftmost match, or None
CustomerIdPattern == <<"C","u","s","t","o","m","e","r"," ","I","D",":"," ">>
SearchCustomerId(content) ==
  LET n == Len(CustomerIdPattern)
      hits == {i \in 1..(Len(content) - n) :
                 /\ SubSeq(content, i, i + n - 1) = CustomerIdPattern
                 /\ content[i + n] \in WordChars}
  IN  IF hits = {} THEN NoneVal
      ELSE LET i == CHOOSE h \in hits : \A g \in hits : h <= g
               ends == {e \in (i + n)..Len(content) :
                          /\ \A k \in (i + n)..e : content[k] \in WordChars
                          /\ (e = Len(content) \/ content[e + 1] \notin WordChars)}
           IN  SubSeq(content, i + n, CHOOSE e \in ends : TRUE)

(***************************************************************************)
(* The customer store (backend/tools.py over the customers JSON file)      *)
(***************************************************************************)

\* the seeded content of settings.CUSTOMERS_FILE: a list of customer objects.
\* Numbers are held as Python prints them (str(float)), transactions as their JSON text.
SeedCustomers ==
  << [customer_id |-> <<"C","0","0","1">>, account_number |-> <<"1","0","0","1">>, profile |-> [phone |-> <<"5","5","5","1","0","0","1">>],
      pin |-> <<"1","2","3","4">>, card_id |-> <<"C","A","R","D","1","0","0","1">>, card_status |-> <<"a","c","t","i","v","e">>,
      account_balance |-> <<"2","5","0","0",".","5">>,
      recent_transactions |-> << <<"{","\"","a","m","o","u","n","t","\"",":"," ","-","2","0",".","0","}">> >>],
     [customer_id |-> <<"C","0","0","2">>, account_number |-> <<"1","0","0","2">>, profile |-> [phone |-> <<"5","5","5","1","0","0","2">>],
      pin |-> <<"4","3","2","1">>, card_id |-> <<"C","A","R","D","1","0","0","2">>, card_status |-> <<"a","c","t","i","v","e">>,
      account_balance |-> <<"1","0",".","0">>,
      recent_transactions |-> << >>],
     [customer_id |-> <<"C","0","0","3">>, account_number |-> <<"1","0","0","3">>, profile |-> [phone |-> <<"5","5","5","1","0","0","3">>],
      pin |-> <<"1","2","3","4">>, card_id |-> <<"C","A","R","D","1","0","0","3">>, card_status |-> <<"a","c","t","i","v","e">>,
      account_balance |-> <<"7","5",".","2","5">>,
      recent_transactions |-> << >>] >>

DEFAULT_TRANSACTION_COUNT == 3

\* the first of the list positions in hits (the loop returns at the first match), or 0
FirstIndex(hits) ==
  IF hits = {} THEN 0 ELSE CHOOSE i \in hits : \A j \in hits : i <= j

\* mutant of verify_identity: the last matching customer of the list wins
verify_identity_LastMatch(custs, customer_id, account_number, phone, pin) ==
  LET Match(cust) ==
        /\ \/ (Truthy(customer_id) /\ cust.customer_id = customer_id)
           \/ (Truthy(account_number) /\ cust.account_number = account_number)
           \/ (Truthy(phone) /\ cust.profile.phone = phone)
        /\ cust.pin = pin
      hits == {k \in 1..Len(custs) : Match(custs[k])}
  IN  IF hits = {} THEN NoneVal
      ELSE <<"I","d","e","n","t","i","t","y"," ","V","e","r","i","f","i","e","d"," ","s","u","c","c","e","s","s","f","u","l","l","y","."," ","C","u","s","t","o","m","e","r"," ","I","D",":"," ">>
             \o custs[CHOOSE i \in hits : \A j \in hits : j <= i].customer_id

\* verify_identity: the success string of the first customer that matches one supplied
\* identifier and the PIN, or False (modelled as None: the caller only tests truthiness)
verify_identity(custs, customer_id, account_number, phone, pin) ==
  LET Match(cust) ==
        /\ \/ (Truthy(customer_id) /\ cust.customer_id = customer_id)
           \/ (Truthy(account_number) /\ cust.account_number = account_number)
           \/ (Truthy(phone) /\ cust.profile.phone = phone)
        /\ cust.pin = pin
      i == FirstIndex({k \in 1..Len(custs) : Match(custs[k])})
  IN  IF i = 0 THEN NoneVal
      ELSE <<"I","d","e","n","t","i","t","y"," ","V","e","r","i","f","i","e","d"," ","s","u","c","c","e","s","s","f","u","l","l","y","."," ","C","u","s","t","o","m","e","r"," ","I","D",":"," ">> \o custs[i].customer_id

\* get_customer_by_id: the customer object or None
get_customer_by_id(custs, customer_id) ==
  LET Is(cust) == cust.customer_id = customer_id
      i == FirstIndex({k \in 1..Len(custs) : Is(custs[k])})
  IN  IF i = 0 THEN NoneRec ELSE custs[i]

\* get_account_balance
get_account_balance(custs, customer_id) ==
  LET c == get_customer_by_id(custs, customer_id)
  IN  IF c = NoneRec THEN <<"0",".","0">> ELSE c.account_balance

\* get_recent_transactions: the first `count` transactions, [] for an unknown customer
get_recent_transactions(custs, customer_id) ==
  LET c == get_customer_by_id(custs, customer_id)
  IN  IF c = NoneRec THEN << >>
      ELSE SubSeq(c.recent_transactions, 1,
                  IF Len(c.recent_transactions) < DEFAULT_TRANSACTION_COUNT
                  THEN Len(c.recent_transactions) ELSE DEFAULT_TRANSACTION_COUNT)

\* mutant of block_card: a card that is already blocked is refused
block_card_RejectBlocked(custs, card_id) ==
  LET Has(cust) == cust.card_id = card_id
      i == FirstIndex({k \in 1..Len(custs) : Has(custs[k])})
  IN  IF i = 0 \/ custs[i].card_status = <<"b","l","o","c","k","e","d">> THEN [store |-> custs, ok |-> FALSE]
      ELSE [store |-> [custs EXCEPT ![i].card_status = <<"b","l","o","c","k","e","d">>], ok |-> TRUE]

\* block_card: (the store afterwards, the returned flag)
block_card(custs, card_id) ==
  LET Has(cust) == cust.card_id = card_id
      i == FirstIndex({k \in 1..Len(custs) : Has(custs[k])})
  IN  IF i = 0 THEN [store |-> custs, ok |-> FALSE]
      ELSE [store |-> [custs EXCEPT ![i].card_status = <<"b","l","o","c","k","e","d">>], ok |-> TRUE]

(***************************************************************************)
(* The tool registry (backend/agent/tools_registry.py)                     *)
(***************************************************************************)

TOOL_REGISTRY ==
  << "t_verify_identity", "t_get_balance", "t_get_transactions", "t_block_card",
     "t_check_eligibility", "t_support_ticket", "t_transfer_funds",
     "t_close_account_request", "t_end_call" >>

\* get_all_tools(): the tools the ToolNode can execute
get_all_tools == {TOOL_REGISTRY[i] : i \in 1..Len(TOOL_REGISTRY)}

\* json.dumps of a list whose items are already JSON text
RECURSIVE JoinItems(_)
JoinItems(items) ==
  IF items = << >> THEN << >>
  ELSE IF Len(items) = 1 THEN items[1]
  ELSE items[1] \o <<","," ">> \o JoinItems(Tail(items))
json_dumps(items) == <<"[">> \o JoinItems(items) \o <<"]">>

t_verify_identity(custs, args) ==
  LET result == verify_identity(custs, args.customer_id, args.account_number, args.phone, args.pin)
  IN  IF Truthy(result) THEN result
      ELSE <<"I","d","e","n","t","i","t","y"," ","V","e","r","i","f","i","c","a","t","i","o","n"," ","F","a","i","l","e","d","."," ","P","l","e","a","s","e"," ","c","h","e","c","k"," ","t","h","e"," ","d","e","t","a","i","l","s"," ","p","r","o","v","i","d","e","d",".">>

t_get_balance(custs, args) ==
  <<"C","u","r","r","e","n","t"," ","b","a","l","a","n","c","e"," ","i","s"," ","$">> \o get_account_balance(custs, args.customer_id)

t_get_transactions(custs, args) ==
  json_dumps(get_recent_transactions(custs, args.customer_id))

\* t_block_card: (the store afterwards, the returned text)
t_block_card(custs, args) ==
  LET customer == get_customer_by_id(custs, args.customer_id)
  IN  IF customer = NoneRec
      THEN [store |-> custs, text |-> <<"F","a","i","l","e","d"," ","t","o"," ","b","l","o","c","k"," ","c","a","r","d",":"," ","C","u","s","t","o","m","e","r"," ","n","o","t"," ","f","o","u","n","d",".">>]
      ELSE IF ~Truthy(customer.card_id)
      THEN [store |-> custs, text |-> <<"F","a","i","l","e","d"," ","t","o"," ","b","l","o","c","k"," ","c","a","r","d",":"," ","N","o"," ","c","a","r","d"," ","f","o","u","n","d"," ","f","o","r"," ","t","h","i","s"," ","c","u","s","t","o","m","e","r",".">>]
      ELSE LET r == block_card(custs, customer.card_id)
           IN  IF r.ok
               THEN [store |-> r.store,
                     text |-> <<"C","a","r","d"," ","e","n","d","i","n","g"," ","i","n"," ">> \o Last4(customer.card_id)
                              \o <<" ","h","a","s"," ","b","e","e","n"," ","b","l","o","c","k","e","d"," ","s","u","c","c","e","s","s","f","u","l","l","y"," ","f","o","r"," ","s","e","c","u","r","i","t","y","."," ","A"," ","r","e","p","l","a","c","e","m","e","n","t"," ","c","a","r","d"," ","w","i","l","l"," ","b","e"," ","m","a","i","l","e","d"," ","w","i","t","h","i","n"," ","5","-","7"," ","b","u","s","i","n","e","s","s"," ","d","a","y","s",".">>]
               ELSE [store |-> r.store,
                     text |-> <<"F","a","i","l","e","d"," ","t","o"," ","b","l","o","c","k"," ","c","a","r","d","."," ","P","l","e","a","s","e"," ","t","r","y"," ","a","g","a","i","n"," ","o","r"," ","c","o","n","t","a","c","t"," ","s","u","p","p","o","r","t",".">>]

t_end_call == <<"C","a","l","l"," ","t","e","r","m","i","n","a","t","e","d",".">>

t_check_eligibility(args) ==
  <<"Y","o","u"," ","a","r","e"," ","e","l","i","g","i","b","l","e"," ","f","o","r"," ">> \o args.product_type
    \o <<"."," ","W","e"," ","c","a","n"," ","p","r","o","c","e","e","d"," ","w","i","t","h"," ","s","c","h","e","d","u","l","i","n","g"," ","a","n"," ","a","p","p","o","i","n","t","m","e","n","t",".">>

t_support_ticket(args) ==
  <<"T","i","c","k","e","t"," ","c","r","e","a","t","e","d"," ","f","o","r"," ">> \o args.issue_type \o <<":"," ">> \o args.description
    \o <<"."," ","I","T"," ","w","i","l","l"," ","c","o","n","t","a","c","t"," ","y","o","u"," ","s","h","o","r","t","l","y",".">>

\* amount is held as Python prints the float
t_transfer_funds(args) ==
  <<"T","r","a","n","s","f","e","r"," ","o","f"," ","$">> \o args.amount \o <<" ","t","o"," ">> \o args.beneficiary \o <<" ","i","n","i","t","i","a","t","e","d"," ","s","u","c","c","e","s","s","f","u","l","l","y",".">>

t_close_account_request(args) ==
  <<"C","l","o","s","u","r","e"," ","r","e","q","u","e","s","t"," ","l","o","g","g","e","d","."," ","R","e","a","s","o","n",":"," ">> \o args.reason \o <<"."," ","A"," ","r","e","t","e","n","t","i","o","n"," ","s","p","e","c","i","a","l","i","s","t"," ","w","i","l","l"," ","c","a","l","l"," ","y","o","u",".">>

\* one tool call executed by the ToolNode: (the store afterwards, the ToolMessage text)
RunTool(custs, call) ==
  CASE call.name = "t_verify_identity" -> [store |-> custs, text |-> t_verify_identity(custs, call.args)]
    [] call.name = "t_get_balance" -> [store |-> custs, text |-> t_get_balance(custs, call.args)]
    [] call.name = "t_get_transactions" -> [store |-> custs, text |-> t_get_transactions(custs, call.args)]
    [] call.name = "t_block_card" -> t_block_card(custs, call.args)
    [] call.name = "t_check_eligibility" -> [store |-> custs, text |-> t_check_eligibility(call.args)]
    [] call.name = "t_support_ticket" -> [store |-> custs, text |-> t_support_ticket(call.args)]
    [] call.name = "t_transfer_funds" -> [store |-> custs, text |-> t_transfer_funds(call.args)]
    [] call.name = "t_close_account_request" -> [store |-> custs, text |-> t_close_account_request(call.args)]
    [] call.name = "t_end_call" -> [store |-> custs, text |-> t_end_call]

(***************************************************************************)
(* Flow configuration (backend/config.py, backend/agent/config.py)         *)
(***************************************************************************)

GENERAL == <<"g","e","n","e","r","a","l">>
CARD_ATM_ISSUES == <<"c","a","r","d","_","a","t","m","_","i","s","s","u","e","s">>
ACCOUNT_SERVICING == <<"a","c","c","o","u","n","t","_","s","e","r","v","i","c","i","n","g">>
DIGITAL_APP_SUPPORT == <<"d","i","g","i","t","a","l","_","a","p","p","_","s","u","p","p","o","r","t">>

\* settings.PROMPTS as load_prompts() returns it from the configuration file
PROMPTS ==
  [routing_flows |->
     (CARD_ATM_ISSUES :> [tools |-> <<"t_verify_identity", "t_block_card">>,
                          requires_verification |-> TRUE])
  @@ (ACCOUNT_SERVICING :> [tools |-> <<"t_verify_identity", "t_get_balance", "t_get_transactions">>,
                            requires_verification |-> TRUE])
  @@ (DIGITAL_APP_SUPPORT :> [tools |-> <<"t_support_ticket">>,
                              requires_verification |-> FALSE])]

\* the configuration file as open()/json.load find it: absent, not JSON, or its content
FILE_MISSING == [error |-> "FileNotFoundError"]
FILE_MALFORMED == [error |-> "JSONDecodeError"]
FILE_UNREADABLE == [error |-> "PermissionError"]
JsonFile(config) == [error |-> "", config |-> config]

\* Config._get_default_config
get_default_config == [routing_flows |-> << >>]

\* mutant of load_prompts: a file that is not JSON leaves the shipped flows in place
load_prompts_MalformedKeepsFlows(file) ==
  IF file.error = "" THEN file.config
  ELSE IF file.error = "FileNotFoundError" THEN get_default_config
  ELSE IF file.error = "JSONDecodeError" THEN PROMPTS
  ELSE get_default_config

\* Config.load_prompts
load_prompts(file) ==
  IF file.error = "" THEN file.config
  ELSE IF file.error = "FileNotFoundError" THEN get_default_config
  ELSE IF file.error = "JSONDecodeError" THEN get_default_config
  ELSE get_default_config

\* FlowConfig.__init__: self.routing_flows
routing_flows(config) == config.routing_flows

\* FlowConfig._build_flow_tools: flow name -> the registered tools among its tool names
flow_tools(config) ==
  LET rf == routing_flows(config)
  IN  [k \in (DOMAIN rf) \cup {GENERAL} |->
         IF k \in DOMAIN rf
         THEN SelectSeq(rf[k].tools, LAMBDA name : name \in get_all_tools)
         ELSE <<"t_verify_identity">>]

\* FlowConfig._build_sensitive_flows
sensitive_flows(config) ==
  {k \in DOMAIN routing_flows(config) : routing_flows(config)[k].requires_verification}

\* mutant of get_tools_for_flow: an unknown flow gets the termination tool only
get_tools_for_flow_NoFallback(config, flow_name) ==
  LET ft == flow_tools(config)
      tools == IF flow_name \in DOMAIN ft THEN ft[flow_name] ELSE << >>
  IN  IF \E i \in 1..Len(tools) : tools[i] = "t_end_call" THEN tools
      ELSE Append(tools, "t_end_call")

\* FlowConfig.get_tools_for_flow: the flow's tools (general's for an unknown flow),
\* with t_end_call appended when absent
get_tools_for_flow(config, flow_name) ==
  LET ft == flow_tools(config)
      tools == IF flow_name \in DOMAIN ft THEN ft[flow_name] ELSE ft[GENERAL]
  IN  IF \E i \in 1..Len(tools) : tools[i] = "t_end_call" THEN tools
      ELSE Append(tools, "t_end_call")

\* FlowConfig.is_sensitive_flow
is_sensitive_flow(config, flow_name) == flow_name \in sensitive_flows(config)

(***************************************************************************)
(* Messages                                                                *)
(***************************************************************************)

HumanMessage(text) == [type |-> "human", content |-> text]
SystemMessage(text) == [type |-> "system", content |-> text]
AIMessage(text, calls) == [type |-> "ai", content |-> text, tool_calls |-> calls]
ToolMessage(text, name, id) == [type |-> "tool", content |-> text, name |-> name, tool_call_id |-> id]

\* next((m for m in reversed(messages) if isinstance(m, HumanMessage)), None)
LastHuman(msgs) ==
  LET hs == {i \in 1..Len(msgs) : msgs[i].type = "human"}
  IN  IF hs = {} THEN NoneRec
      ELSE msgs[CHOOSE i \in hs : \A j \in hs : j <= i]

NumAI(msgs) == Cardinality({i \in 1..Len(msgs) : msgs[i].type = "ai"})

(***************************************************************************)
(* RouterNode (backend/agent/nodes.py)                                     *)
(***************************************************************************)

card_actions == {<<"b","l","o","c","k">>, <<"f","r","e","e","z","e">>, <<"d","e","a","c","t","i","v","a","t","e">>, <<"c","a","n","c","e","l">>, <<"l","o","s","t">>, <<"s","t","o","l","e","n">>, <<"d","e","c","l","i","n","e">>}
card_identifiers == {<<"c","a","r","d">>, <<"c","r","e","d","i","t"," ","c","a","r","d">>, <<"d","e","b","i","t"," ","c","a","r","d">>, <<"a","t","m"," ","c","a","r","d">>}
atm_issues == {<<"p","r","o","b","l","e","m">>, <<"i","s","s","u","e">>, <<"n","o","t"," ","w","o","r","k","i","n","g">>, <<"c","a","s","h">>, <<"d","i","s","p","e","n","s">>, <<"s","t","u","c","k">>, <<"r","e","t","a","i","n">>}

\* mutant of classify_by_keywords: the ATM rule is missing
classify_by_keywords_CardOnly(text) ==
  LET text_lower == Lower(text)
  IN  IF ContainsAny(text_lower, card_actions) /\ ContainsAny(text_lower, card_identifiers)
      THEN CARD_ATM_ISSUES
      ELSE NoneVal

\* RouterNode._classify_by_keywords: the flow name, or None
classify_by_keywords(text) ==
  LET text_lower == Lower(text)
  IN  IF ContainsAny(text_lower, card_actions) /\ ContainsAny(text_lower, card_identifiers)
      THEN CARD_ATM_ISSUES
      ELSE IF Contains(text_lower, <<"a","t","m">>) /\ ContainsAny(text_lower, atm_issues)
      THEN CARD_ATM_ISSUES
      ELSE NoneVal

continuation_patterns ==
  {<<"y","e","s">>, <<"n","o">>, <<"y","e","a","h">>, <<"y","e","p">>, <<"n","o","p","e">>, <<"s","u","r","e">>, <<"o","k">>, <<"o","k","a","y">>,
   <<"a","c","c","o","u","n","t">>, <<"p","i","n">>, <<"n","u","m","b","e","r">>, <<"p","a","s","s","w","o","r","d">>,
   <<"1">>, <<"2">>, <<"3">>, <<"4">>, <<"5">>, <<"6">>, <<"7">>, <<"8">>, <<"9">>, <<"0">>,
   <<"t","h","a","n","k">>, <<"p","l","e","a","s","e">>, <<"h","e","l","p">>}

\* RouterNode._is_continuation
is_continuation(text) ==
  LET text_lower == Strip(Lower(text))
      words == WordStarts(text_lower)
  IN  \/ (Cardinality(words) <= 5 /\ ContainsAny(text_lower, continuation_patterns))
      \/ Contains(text_lower, <<"a","c","c","o","u","n","t">>)
      \/ Contains(text_lower, <<"p","i","n">>)
      \/ Cardinality({i \in words : WordHasDigit(text_lower, i)}) >= 2

\* RouterNode.__call__ needs the generation service for this state
RouterNeedsLLM(msgs, current_flow) ==
  LET last_human == LastHuman(msgs)
  IN  /\ last_human # NoneRec
      /\ classify_by_keywords(last_human.content) = NoneVal
      /\ ~(current_flow # GENERAL /\ is_continuation(last_human.content))

\* mutant of RouterNode: the classification is returned without the sanitize step
RouterNode_NoSanitize(config, msgs, current_flow, llm_content) ==
  LET last_human == LastHuman(msgs)
  IN  IF last_human = NoneRec THEN current_flow
      ELSE IF classify_by_keywords(last_human.content) # NoneVal
      THEN classify_by_keywords(last_human.content)
      ELSE IF current_flow # GENERAL /\ is_continuation(last_human.content)
      THEN current_flow
      ELSE Lower(Strip(llm_content))

\* mutant of RouterNode: the continuation rule is tried before the keyword rule
RouterNode_ContinuationFirst(config, msgs, current_flow, llm_content) ==
  LET last_human == LastHuman(msgs)
  IN  IF last_human = NoneRec THEN current_flow
      ELSE IF current_flow # GENERAL /\ is_continuation(last_human.content)
      THEN current_flow
      ELSE IF classify_by_keywords(last_human.content) # NoneVal
      THEN classify_by_keywords(last_human.content)
      ELSE LET classification == Lower(Strip(llm_content))
           IN  IF classification \notin DOMAIN flow_tools(config) THEN GENERAL
               ELSE classification

\* RouterNode.__call__: the new active_flow; llm_content is the generation
\* service's answer, read only when RouterNeedsLLM
RouterNode(config, msgs, current_flow, llm_content) ==
  LET last_human == LastHuman(msgs)
  IN  IF last_human = NoneRec THEN current_flow
      ELSE IF classify_by_keywords(last_human.content) # NoneVal
      THEN classify_by_keywords(last_human.content)
      ELSE IF current_flow # GENERAL /\ is_continuation(last_human.content)
      THEN current_flow
      ELSE LET classification == Lower(Strip(llm_content))
           IN  IF classification \notin DOMAIN flow_tools(config) THEN GENERAL
               ELSE classification

(***************************************************************************)
(* VerificationGate (backend/agent/nodes.py)                               *)
(***************************************************************************)

VERIFIED_MARK == <<"I","d","e","n","t","i","t","y"," ","V","e","r","i","f","i","e","d"," ","s","u","c","c","e","s","s","f","u","l","l","y">>
VERIFICATION_DIRECTIVE ==
  <<"C","u","r","r","e","n","t"," ","F","l","o","w"," ","r","e","q","u","i","r","e","s"," ","V","E","R","I","F","I","C","A","T","I","O","N","."," ","Y","o","u"," ","M","U","S","T"," ","a","s","k"," ","f","o","r"," ","A","c","c","o","u","n","t"," ","N","u","m","b","e","r"," ","a","n","d"," ","P","I","N"," ","i","f"," ","n","o","t"," ","p","r","o","v","i","d","e","d","."," ","D","o"," ","n","o","t"," ","p","e","r","f","o","r","m"," ","t","h","e"," ","a","c","t","i","o","n"," ","u","n","t","i","l"," ","v","e","r","i","f","i","e","d",".">>

\* the last message is a ToolMessage that carries the success text
JustVerified(msgs) ==
  /\ Len(msgs) > 0
  /\ msgs[Len(msgs)].type = "tool"
  /\ Contains(msgs[Len(msgs)].content, VERIFIED_MARK)

\* mutant of VerificationGate: a failed verification attempt un-verifies the session
VerificationGate_ResetOnFailure(config, msgs, flow, verified) ==
  IF JustVerified(msgs)
  THEN [set |-> {"is_verified", "customer_id"}, is_verified |-> TRUE,
        customer_id |-> SearchCustomerId(msgs[Len(msgs)].content), messages |-> << >>]
  ELSE IF Len(msgs) > 0 /\ msgs[Len(msgs)].type = "tool" /\ msgs[Len(msgs)].name = "t_verify_identity"
  THEN [set |-> {"is_verified", "customer_id"}, is_verified |-> FALSE,
        customer_id |-> NoneVal, messages |-> << >>]
  ELSE IF is_sensitive_flow(config, flow) /\ ~verified
  THEN [set |-> {"messages"}, is_verified |-> verified, customer_id |-> NoneVal,
        messages |-> << SystemMessage(VERIFICATION_DIRECTIVE) >>]
  ELSE [set |-> {}, is_verified |-> verified, customer_id |-> NoneVal, messages |-> << >>]

\* mutant of VerificationGate: any result of the verification tool counts as success
VerificationGate_AnyVerifyResult(config, msgs, flow, verified) ==
  IF Len(msgs) > 0 /\ msgs[Len(msgs)].type = "tool" /\ msgs[Len(msgs)].name = "t_verify_identity"
  THEN [set |-> {"is_verified", "customer_id"}, is_verified |-> TRUE,
        customer_id |-> SearchCustomerId(msgs[Len(msgs)].content), messages |-> << >>]
  ELSE IF is_sensitive_flow(config, flow) /\ ~verified
  THEN [set |-> {"messages"}, is_verified |-> verified, customer_id |-> NoneVal,
        messages |-> << SystemMessage(VERIFICATION_DIRECTIVE) >>]
  ELSE [set |-> {}, is_verified |-> verified, customer_id |-> NoneVal, messages |-> << >>]

\* mutant of VerificationGate: a success text without a parsable handle does not verify
VerificationGate_RequireHandle(config, msgs, flow, verified) ==
  IF JustVerified(msgs) /\ SearchCustomerId(msgs[Len(msgs)].content) # NoneVal
  THEN [set |-> {"is_verified", "customer_id"}, is_verified |-> TRUE,
        customer_id |-> SearchCustomerId(msgs[Len(msgs)].content), messages |-> << >>]
  ELSE IF is_sensitive_flow(config, flow) /\ ~verified
  THEN [set |-> {"messages"}, is_verified |-> verified, customer_id |-> NoneVal,
        messages |-> << SystemMessage(VERIFICATION_DIRECTIVE) >>]
  ELSE [set |-> {}, is_verified |-> verified, customer_id |-> NoneVal, messages |-> << >>]

\* mutant of VerificationGate: the directive is injected in every pass of a
\* sensitive flow, verified or not
VerificationGate_DirectiveAlways(config, msgs, flow, verified) ==
  IF JustVerified(msgs)
  THEN [set |-> {"is_verified", "customer_id"}, is_verified |-> TRUE,
        customer_id |-> SearchCustomerId(msgs[Len(msgs)].content), messages |-> << >>]
  ELSE IF is_sensitive_flow(config, flow)
  THEN [set |-> {"messages"}, is_verified |-> verified, customer_id |-> NoneVal,
        messages |-> << SystemMessage(VERIFICATION_DIRECTIVE) >>]
  ELSE [set |-> {}, is_verified |-> verified, customer_id |-> NoneVal, messages |-> << >>]

\* VerificationGate.__call__: the state update it returns. set names the keys of
\* the returned dict; messages are the messages to append
VerificationGate(config, msgs, flow, verified) ==
  IF JustVerified(msgs)
  THEN [set |-> {"is_verified", "customer_id"}, is_verified |-> TRUE,
        customer_id |-> SearchCustomerId(msgs[Len(msgs)].content), messages |-> << >>]
  ELSE IF is_sensitive_flow(config, flow) /\ ~verified
  THEN [set |-> {"messages"}, is_verified |-> verified, customer_id |-> NoneVal,
        messages |-> << SystemMessage(VERIFICATION_DIRECTIVE) >>]
  ELSE [set |-> {}, is_verified |-> verified, customer_id |-> NoneVal, messages |-> << >>]

(***************************************************************************)
(* FlowExecutor (backend/agent/nodes.py)                                   *)
(***************************************************************************)

continuation_words ==
  {<<"v","e","r","i","f">>, <<"c","h","e","c","k">>, <<"a","s","s","i","s","t">>, <<"h","e","l","p">>, <<"b","e","i","n","g">>, <<"w","i","l","l">>, <<"n","e","e","d">>, <<"p","r","o","v","i","d","e">>,
   <<"a","c","c","o","u","n","t">>, <<"i","d","e","n","t","i","t","y">>}

goodbye_phrases ==
  {<<"b","y","e">>, <<"g","o","o","d","b","y","e">>, <<"t","h","a","n","k","s">>, <<"t","h","a","n","k"," ","y","o","u">>, <<"t","h","a","t","'","s"," ","a","l","l">>, <<"h","a","n","g"," ","u","p">>, <<"e","n","d"," ","c","a","l","l">>,
   <<"n","o"," ","t","h","a","n","k","s">>}

HasEndCall(calls) == \E i \in 1..Len(calls) : calls[i].name = "t_end_call"
other_tools_present(calls) == \E i \in 1..Len(calls) : calls[i].name # "t_end_call"
WithoutEndCall(calls) == SelectSeq(calls, LAMBDA tc : tc.name # "t_end_call")

\* mutant of check_termination: any t_end_call request ends the call
check_termination_AnyEndCall(response) == HasEndCall(response.tool_calls)

\* FlowExecutor._check_termination
check_termination(response) ==
  /\ response.tool_calls # << >>
  /\ HasEndCall(response.tool_calls)
  /\ ~other_tools_present(response.tool_calls)
  /\ ~ContainsAny(Lower(response.content), continuation_words)

\* user_wants_to_end of FlowExecutor._filter_premature_termination
user_wants_to_end(msgs) ==
  LET last_human == LastHuman(msgs)
  IN  /\ last_human # NoneRec
      /\ ContainsAny(Lower(last_human.content), goodbye_phrases)

\* mutant of filter_premature_termination: a bundled t_end_call is kept when the
\* user said goodbye
filter_premature_termination_KeepBundled(response, msgs) ==
  IF response.tool_calls = << >> THEN response.tool_calls
  ELSE IF ~user_wants_to_end(msgs) THEN WithoutEndCall(response.tool_calls)
  ELSE response.tool_calls

\* mutant of filter_premature_termination: the user's closing intent is not looked at
filter_premature_termination_IgnoreUser(response, msgs) ==
  IF response.tool_calls = << >> THEN response.tool_calls
  ELSE IF other_tools_present(response.tool_calls) THEN WithoutEndCall(response.tool_calls)
  ELSE response.tool_calls

\* mutant of filter_premature_termination: when t_end_call is filtered out, only the
\* first of the other tool calls is kept
filter_premature_termination_KeepFirstOther(response, msgs) ==
  LET first_other == IF WithoutEndCall(response.tool_calls) = << >> THEN << >>
                     ELSE << Head(WithoutEndCall(response.tool_calls)) >>
  IN  IF response.tool_calls = << >> THEN response.tool_calls
      ELSE IF ~user_wants_to_end(msgs) THEN first_other
      ELSE IF other_tools_present(response.tool_calls) THEN first_other
      ELSE response.tool_calls

\* FlowExecutor._filter_premature_termination: the tool calls left in the response
filter_premature_termination(response, msgs) ==
  IF response.tool_calls = << >> THEN response.tool_calls
  ELSE IF ~user_wants_to_end(msgs) THEN WithoutEndCall(response.tool_calls)
  ELSE IF other_tools_present(response.tool_calls) THEN WithoutEndCall(response.tool_calls)
  ELSE response.tool_calls

\* FlowExecutor.__call__: the update it returns for the generation service's response
FlowExecutor(response, msgs) ==
  [messages |-> << AIMessage(response.content, filter_premature_termination(response, msgs)) >>,
   is_call_over |-> check_termination(response)]

\* mutant of should_continue: the tools node is chosen although the call is over
should_continue_IgnoreCallOver(call_over, msgs) ==
  IF msgs[Len(msgs)].tool_calls # << >> THEN "tools"
  ELSE "__end__"

\* AgentGraphBuilder._should_continue
should_continue(call_over, msgs) ==
  IF call_over THEN "__end__"
  ELSE IF msgs[Len(msgs)].tool_calls # << >> THEN "tools"
  ELSE "__end__"


(***************************************************************************)
(* The Executor's directive (FlowExecutor._build_system_message)           *)
(* Characters outside ASCII are written as "?".                            *)
(***************************************************************************)

\* dict.get(key, default)
Get(d, key, default) == IF key \in DOMAIN d THEN d[key] ELSE default

\* Python's {} and []
EmptyDict == << >>

LowerToUpper ==
  "a" :> "A" @@ "b" :> "B" @@ "c" :> "C" @@ "d" :> "D" @@ "e" :> "E" @@ "f" :> "F" @@
  "g" :> "G" @@ "h" :> "H" @@ "i" :> "I" @@ "j" :> "J" @@ "k" :> "K" @@ "l" :> "L" @@
  "m" :> "M" @@ "n" :> "N" @@ "o" :> "O" @@ "p" :> "P" @@ "q" :> "Q" @@ "r" :> "R" @@
  "s" :> "S" @@ "t" :> "T" @@ "u" :> "U" @@ "v" :> "V" @@ "w" :> "W" @@ "x" :> "X" @@
  "y" :> "Y" @@ "z" :> "Z"

\* flow.upper().replace('_', ' ')
FlowTitle(flow) ==
  [i \in 1..Len(flow) |->
     IF flow[i] \in DOMAIN LowerToUpper THEN LowerToUpper[flow[i]]
     ELSE IF flow[i] = "_" THEN " " ELSE flow[i]]

\* str.startswith
StartsWith(t, p) == Len(p) <= Len(t) /\ SubSeq(t, 1, Len(p)) = p

\* sep.join(items)
RECURSIVE JoinWith(_, _)
JoinWith(items, sep) ==
  IF items = << >> THEN << >>
  ELSE IF Len(items) = 1 THEN items[1]
  ELSE items[1] \o sep \o JoinWith(Tail(items), sep)

\* items[:n]
Take(items, n) == SubSeq(items, 1, IF Len(items) < n THEN Len(items) ELSE n)

\* the text of a natural number in an f-string
DigitChars == << "0", "1", "2", "3", "4", "5", "6", "7", "8", "9" >>
RECURSIVE IntText(_)
IntText(n) ==
  IF n < 10 THEN << DigitChars[n + 1] >>
  ELSE IntText(n \div 10) \o << DigitChars[(n % 10) + 1] >>

\* the text of customer_id in an f-string: 'None' for None
IdText(customer_id) == IF customer_id = NoneVal THEN <<"N","o","n","e">> ELSE customer_id

\* the name of a tool as text
ToolNameText ==
  [name \in get_all_tools |->
     CASE name = "t_verify_identity" -> <<"t","_","v","e","r","i","f","y","_","i","d","e","n","t","i","t","y">>
       [] name = "t_get_balance" -> <<"t","_","g","e","t","_","b","a","l","a","n","c","e">>
       [] name = "t_get_transactions" -> <<"t","_","g","e","t","_","t","r","a","n","s","a","c","t","i","o","n","s">>
       [] name = "t_block_card" -> <<"t","_","b","l","o","c","k","_","c","a","r","d">>
       [] name = "t_check_eligibility" -> <<"t","_","c","h","e","c","k","_","e","l","i","g","i","b","i","l","i","t","y">>
       [] name = "t_support_ticket" -> <<"t","_","s","u","p","p","o","r","t","_","t","i","c","k","e","t">>
       [] name = "t_transfer_funds" -> <<"t","_","t","r","a","n","s","f","e","r","_","f","u","n","d","s">>
       [] name = "t_close_account_request" -> <<"t","_","c","l","o","s","e","_","a","c","c","o","u","n","t","_","r","e","q","u","e","s","t">>
       [] name = "t_end_call" -> <<"t","_","e","n","d","_","c","a","l","l">>]

\* FlowExecutor.__init__: self.base_persona
base_persona(config) == Get(config, "system_persona", <<"Y","o","u"," ","a","r","e"," ","a"," ","b","a","n","k","i","n","g"," ","a","s","s","i","s","t","a","n","t",".">>)

\* FlowConfig.get_flow_instructions
get_flow_instructions(config, flow_name) ==
  Get(Get(routing_flows(config), flow_name, EmptyDict), "flow_instructions", EmptyDict)

\* FlowConfig.get_conversation_strategy
get_conversation_strategy(config, flow_name) ==
  Get(Get(routing_flows(config), flow_name, EmptyDict), "conversation_strategy", EmptyDict)

\* FlowConfig.get_max_questions_before_escalation: None when the flow does not set it,
\* written 0 here (the directive only tests the truth of the value, and None and 0
\* are both false)
get_max_questions_before_escalation(config, flow_name) ==
  Get(Get(routing_flows(config), flow_name, EmptyDict), "max_questions_before_escalation", 0)

\* FlowConfig.is_deep_flow
is_deep_flow(config, flow_name) ==
  LET flow_data == Get(routing_flows(config), flow_name, EmptyDict)
      tools == Get(flow_data, "tools", << >>)
      flow_instructions == Get(flow_data, "flow_instructions", EmptyDict)
  IN  \/ \E i \in 1..Len(tools) : tools[i] # "t_verify_identity"
      \/ Get(flow_instructions, "post_verification", << >>) # << >>
      \/ Get(flow_instructions, "pre_verification", << >>) # << >>

\* FlowConfig.get_escalation_message
get_escalation_message(config, flow_name) ==
  LET flow_instructions == get_flow_instructions(config, flow_name)
      escalation_strategies == Get(config, "escalation_strategies", EmptyDict)
      templates == Get(escalation_strategies, "escalation_message_templates", EmptyDict)
  IN  IF "escalation_message" \in DOMAIN flow_instructions
      THEN flow_instructions.escalation_message
      ELSE IF flow_name \in DOMAIN templates THEN templates[flow_name]
      ELSE IF is_deep_flow(config, flow_name)
      THEN Get(escalation_strategies, "deep_flows_default_message",
               <<"L","e","t"," ","m","e"," ","c","o","n","n","e","c","t"," ","y","o","u"," ","t","o"," ","o","n","e"," ","o","f"," ","o","u","r"," ","s","p","e","c","i","a","l","i","s","t","s"," ","w","h","o"," ","c","a","n"," ","a","s","s","i","s","t"," ","y","o","u"," ","f","u","r","t","h","e","r",".">>)
      ELSE Get(escalation_strategies, "shallow_flows_default_message",
               <<"L","e","t"," ","m","e"," ","c","o","n","n","e","c","t"," ","y","o","u"," ","t","o"," ","a"," ","s","p","e","c","i","a","l","i","s","t"," ","w","h","o"," ","c","a","n"," ","h","e","l","p"," ","y","o","u"," ","w","i","t","h"," ","t","h","i","s",".">>)

workaround_instruction ==
  <<"\n","\n","I","M","P","O","R","T","A","N","T"," ","V","E","R","I","F","I","C","A","T","I","O","N"," ","N","O","T","E",":"," ","C","a","n","'","t"," ","h","e","a","r"," ","'","C","u","s","t","o","m","e","r"," ","I","D","'"," ","w","e","l","l","?"," ","A","s","k"," ","f","o","r"," ","'","A","c","c","o","u","n","t"," ","N","u","m","b","e","r","'"," ","(","4"," ","d","i","g","i","t","s",")"," ","o","r"," ","'","P","h","o","n","e"," ","N","u","m","b","e","r","'"," ","i","n","s","t","e","a","d","."," ","P","r","e","f","e","r"," ","a","s","k","i","n","g"," ","f","o","r"," ","A","c","c","o","u","n","t"," ","N","u","m","b","e","r"," ","a","n","d"," ","P","I","N"," ","f","o","r"," ","v","e","r","i","f","i","c","a","t","i","o","n",".">>

strict_rule ==
  <<"\n","\n","C","R","I","T","I","C","A","L"," ","D","A","T","A"," ","R","U","L","E",":"," ","Y","o","u"," ","D","O"," ","N","O","T"," ","k","n","o","w"," ","a","n","y"," ","a","c","c","o","u","n","t"," ","d","e","t","a","i","l","s"," ","(","b","a","l","a","n","c","e",","," ","t","r","a","n","s","a","c","t","i","o","n","s",")"," ","u","n","l","e","s","s"," ","y","o","u"," ","u","s","e"," ","t","h","e"," ","p","r","o","v","i","d","e","d"," ","t","o","o","l","s","."," ","D","O"," ","N","O","T"," ","h","a","l","l","u","c","i","n","a","t","e"," ","o","r"," ","g","u","e","s","s"," ","n","u","m","b","e","r","s","."," ","A","l","w","a","y","s"," ","c","a","l","l"," ","t","h","e"," ","t","o","o","l"," ","t","o"," ","g","e","t"," ","t","h","e"," ","l","a","t","e","s","t"," ","d","a","t","a",".">>

termination_safety ==
  <<"\n","\n","T","E","R","M","I","N","A","T","I","O","N"," ","R","U","L","E",":"," ","N","E","V","E","R"," ","c","a","l","l"," ","t","_","e","n","d","_","c","a","l","l"," ","t","o"," ","f","i","n","i","s","h"," ","a"," ","t","a","s","k","."," ","O","n","l","y"," ","c","a","l","l"," ","t","_","e","n","d","_","c","a","l","l"," ","w","h","e","n"," ","t","h","e"," ","U","S","E","R"," ","e","x","p","l","i","c","i","t","l","y"," ","s","a","y","s"," ","g","o","o","d","b","y","e"," ","o","r"," ","a","s","k","s"," ","t","o"," ","e","n","d"," ","t","h","e"," ","c","a","l","l","."," ","I","f"," ","y","o","u"," ","h","a","v","e"," ","c","o","m","p","l","e","t","e","d"," ","a"," ","t","a","s","k"," ","(","l","i","k","e"," ","v","e","r","i","f","i","c","a","t","i","o","n",")",","," ","a","s","k"," ","t","h","e"," ","u","s","e","r"," ","w","h","a","t"," ","e","l","s","e"," ","t","h","e","y"," ","n","e","e","d",".">>

tool_execution_style ==
  <<"\n","\n","?"," ","T","O","O","L"," ","E","X","E","C","U","T","I","O","N"," ","S","T","Y","L","E",":"," ","W","h","e","n"," ","y","o","u"," ","n","e","e","d"," ","t","o"," ","u","s","e"," ","a"," ","t","o","o","l",","," ","D","O"," ","N","O","T"," ","a","n","n","o","u","n","c","e"," ","i","t","."," ","D","o"," ","N","O","T"," ","s","a","y"," ","'","p","l","e","a","s","e"," ","h","o","l","d","'",","," ","'","l","e","t"," ","m","e"," ","c","h","e","c","k","'",","," ","'","I","'","l","l"," ","v","e","r","i","f","y"," ","t","h","a","t","'",","," ","o","r"," ","s","i","m","i","l","a","r"," ","p","h","r","a","s","e","s","."," ","S","i","m","p","l","y"," ","c","a","l","l"," ","t","h","e"," ","t","o","o","l"," ","s","i","l","e","n","t","l","y"," ","a","n","d"," ","r","e","p","o","r","t"," ","t","h","e"," ","R","E","S","U","L","T","."," ","E","x","a","m","p","l","e",":"," ","I","n","s","t","e","a","d"," ","o","f"," ","'","L","e","t"," ","m","e"," ","b","l","o","c","k"," ","y","o","u","r"," ","c","a","r","d",".",".",".","'"," ","?"," ","J","u","s","t"," ","c","a","l","l"," ","t","_","b","l","o","c","k","_","c","a","r","d"," ","a","n","d"," ","s","a","y"," ","'","Y","o","u","r"," ","c","a","r","d"," ","h","a","s"," ","b","e","e","n"," ","b","l","o","c","k","e","d"," ","s","u","c","c","e","s","s","f","u","l","l","y",".","'">>

\* "\n- item" for each item
RECURSIVE Bullets(_)
Bullets(items) ==
  IF items = << >> THEN << >> ELSE <<"\n","-"," ">> \o Head(items) \o Bullets(Tail(items))

\* the lines of the interaction pattern, the strict rules marked
RECURSIVE PatternLines(_)
PatternLines(items) ==
  IF items = << >> THEN << >>
  ELSE (IF StartsWith(Head(items), <<"S","T","R","I","C","T"," ","R","U","L","E">>) \/ StartsWith(Head(items), <<"I","M","M","E","D","I","A","T","E">>)
        THEN <<"\n","?"," ">> ELSE <<"\n","-"," ">>) \o Head(items) \o PatternLines(Tail(items))

\* _build_system_message: permission_note of a verified session
permission_note(config, flow, customer_id) ==
  LET tools == get_tools_for_flow(config, flow)
      tool_names == SelectSeq(tools, LAMBDA name : name # "t_end_call")
      has(name) == \E i \in 1..Len(tool_names) : tool_names[i] = name
      cid == IdText(customer_id)
      tool_examples ==
        (IF has("t_get_balance")
         THEN << <<"-"," ","C","h","e","c","k"," ","b","a","l","a","n","c","e",":"," ","t","_","g","e","t","_","b","a","l","a","n","c","e","(","c","u","s","t","o","m","e","r","_","i","d","=","'">> \o cid \o <<"'",")">> >> ELSE << >>)
        \o (IF has("t_block_card")
            THEN << <<"-"," ","B","l","o","c","k"," ","c","a","r","d",":"," ","t","_","b","l","o","c","k","_","c","a","r","d","(","c","u","s","t","o","m","e","r","_","i","d","=","'">> \o cid \o <<"'",")">> >> ELSE << >>)
        \o (IF has("t_get_transactions")
            THEN << <<"-"," ","G","e","t"," ","t","r","a","n","s","a","c","t","i","o","n","s",":"," ","t","_","g","e","t","_","t","r","a","n","s","a","c","t","i","o","n","s","(","c","u","s","t","o","m","e","r","_","i","d","=","'">> \o cid \o <<"'",")">> >>
            ELSE << >>)
        \o (IF has("t_update_address")
            THEN << <<"-"," ","U","p","d","a","t","e"," ","a","d","d","r","e","s","s",":"," ","t","_","u","p","d","a","t","e","_","a","d","d","r","e","s","s","(","c","u","s","t","o","m","e","r","_","i","d","=","'">> \o cid
                    \o <<"'",","," ","n","e","w","_","a","d","d","r","e","s","s","=","'",".",".",".","'",")">> >>
            ELSE << >>)
      examples_str == JoinWith(tool_examples, <<"\n">>)
      names_text == JoinWith([i \in 1..Len(tool_names) |-> ToolNameText[tool_names[i]]], <<","," ">>)
  IN  <<"\n","\n","[","S","Y","S","T","E","M"," ","U","P","D","A","T","E","]",":"," ","U","s","e","r"," ","i","s"," ","V","E","R","I","F","I","E","D"," ","(","C","u","s","t","o","m","e","r"," ","I","D",":"," ">> \o cid \o <<")","."," ">>
      \o <<"Y","o","u"," ","h","a","v","e"," ","p","e","r","m","i","s","s","i","o","n"," ","t","o"," ","d","i","s","c","l","o","s","e"," ","a","c","c","o","u","n","t"," ","d","e","t","a","i","l","s"," ","a","n","d"," ","p","e","r","f","o","r","m"," ","a","c","t","i","o","n","s",".","\n">>
      \o <<"\n","?"," ","C","R","I","T","I","C","A","L",":"," ","F","o","r"," ","A","L","L"," ","t","o","o","l"," ","c","a","l","l","s",","," ","y","o","u"," ","M","U","S","T"," ","u","s","e"," ","c","u","s","t","o","m","e","r","_","i","d","=","'">> \o cid \o <<"'",".","\n">>
      \o <<"\n","?"," ","I","M","M","E","D","I","A","T","E"," ","A","C","T","I","O","N",":"," ","W","h","e","n"," ","u","s","e","r"," ","c","o","n","f","i","r","m","s"," ","a","n"," ","a","c","t","i","o","n"," ","(","s","a","y","s"," ","y","e","s",","," ","s","u","r","e",","," ","o","k","a","y",","," ","p","l","e","a","s","e"," ","d","o"," ","i","t",","," ","e","t","c",".",")",","," ">>
      \o <<"y","o","u"," ","M","U","S","T"," ","I","M","M","E","D","I","A","T","E","L","Y"," ","C","A","L","L"," ","T","H","E"," ","T","O","O","L","."," ","D","O"," ","N","O","T"," ","j","u","s","t"," ","d","e","s","c","r","i","b","e"," ","w","h","a","t"," ","w","i","l","l"," ","h","a","p","p","e","n","."," ">>
      \o <<"F","o","r"," ","e","x","a","m","p","l","e",","," ","i","f"," ","u","s","e","r"," ","s","a","y","s"," ","'","y","e","s"," ","b","l","o","c","k"," ","m","y"," ","c","a","r","d","'",","," ","y","o","u"," ","M","U","S","T"," ","c","a","l","l"," ","t","_","b","l","o","c","k","_","c","a","r","d","(","c","u","s","t","o","m","e","r","_","i","d","=","'","{","c","u","s","t","o","m","e","r","_","i","d","}","'",")"," ","R","I","G","H","T"," ","N","O","W",","," ">>
      \o <<"n","o","t"," ","j","u","s","t"," ","s","a","y"," ","'","y","o","u","r"," ","c","a","r","d"," ","w","i","l","l"," ","b","e"," ","b","l","o","c","k","e","d","'",".","\n">>
      \o <<"\n","T","o","o","l"," ","U","s","a","g","e"," ","E","x","a","m","p","l","e","s",":","\n">> \o examples_str \o <<"\n">>
      \o <<"\n","P","r","o","c","e","e","d"," ","w","i","t","h"," ","t","h","e"," ","u","s","e","r","'","s"," ","r","e","q","u","e","s","t"," ","i","m","m","e","d","i","a","t","e","l","y"," ","u","s","i","n","g"," ","t","h","e","s","e"," ","t","o","o","l","s",".">>
      \o (IF tool_names # << >>
          THEN <<"\n","\n","?"," ","C","R","I","T","I","C","A","L"," ","T","O","O","L"," ","U","S","A","G","E"," ","R","U","L","E",":"," ","Y","o","u"," ","h","a","v","e"," ","t","h","e","s","e"," ","t","o","o","l","s"," ","a","v","a","i","l","a","b","l","e",":"," ">> \o names_text
               \o <<"."," ","I","f"," ","t","h","e"," ","u","s","e","r","'","s"," ","r","e","q","u","e","s","t"," ","m","a","t","c","h","e","s"," ","w","h","a","t"," ","a","n","y"," ","o","f"," ","t","h","e","s","e"," ","t","o","o","l","s"," ","c","a","n"," ","d","o",","," ","y","o","u"," ","M","U","S","T"," ","u","s","e"," ","t","h","e"," ","t","o","o","l","."," ">>
               \o <<"D","O"," ","N","O","T"," ","e","s","c","a","l","a","t","e"," ","t","o"," ","a"," ","h","u","m","a","n"," ","a","g","e","n","t"," ","w","h","e","n"," ","y","o","u"," ","h","a","v","e"," ","t","h","e"," ","t","o","o","l"," ","t","o"," ","s","o","l","v","e"," ","i","t"," ","y","o","u","r","s","e","l","f","."," ">>
               \o <<"F","o","r"," ","e","x","a","m","p","l","e",","," ","i","f"," ","u","s","e","r"," ","w","a","n","t","s"," ","t","o"," ","b","l","o","c","k"," ","a"," ","c","a","r","d"," ","a","n","d"," ","y","o","u"," ","h","a","v","e"," ","t","_","b","l","o","c","k","_","c","a","r","d"," ","t","o","o","l",","," ","U","S","E"," ","I","T"," ","I","M","M","E","D","I","A","T","E","L","Y","."," ">>
               \o <<"O","n","l","y"," ","e","s","c","a","l","a","t","e"," ","i","f",":"," ","(","1",")"," ","t","h","e"," ","t","o","o","l"," ","f","a","i","l","s"," ","t","e","c","h","n","i","c","a","l","l","y",","," ","(","2",")"," ","u","s","e","r"," ","e","x","p","l","i","c","i","t","l","y"," ","a","s","k","s"," ","f","o","r"," ","h","u","m","a","n",","," ","o","r"," ","(","3",")"," ","y","o","u"," ","g","e","n","u","i","n","e","l","y"," ","d","o","n","'","t"," ","h","a","v","e"," ","a"," ","t","o","o","l"," ","f","o","r"," ","t","h","e"," ","r","e","q","u","e","s","t",".">>
          ELSE << >>)

\* _build_system_message: flow_specific_instructions
flow_specific_instructions(config, flow, is_verified_, customer_id) ==
  LET flow_instructions_data == get_flow_instructions(config, flow)
      conversation_strategy == get_conversation_strategy(config, flow)
      post_verification == Get(flow_instructions_data, "post_verification", << >>)
      pre_verification == Get(flow_instructions_data, "pre_verification", << >>)
      has_detailed_instructions == post_verification # << >> \/ pre_verification # << >>
      interaction_pattern == Get(flow_instructions_data, "interaction_pattern", << >>)
      strategy_desc == Get(conversation_strategy, "description", << >>)
      edge_cases == Get(flow_instructions_data, "edge_cases", << >>)
      max_questions == get_max_questions_before_escalation(config, flow)
      escalation_msg == get_escalation_message(config, flow)
      has_max == max_questions # 0
  IN  IF has_detailed_instructions
      THEN IF is_verified_
           THEN IF post_verification # << >>
                THEN (IF strategy_desc # << >>
                      THEN <<"\n","\n","[","F","L","O","W",":"," ">> \o FlowTitle(flow) \o <<"]","\n">> \o strategy_desc \o <<"\n">>
                      ELSE <<"\n","\n","Y","o","u","r"," ","i","n","s","t","r","u","c","t","i","o","n","s",":">>)
                     \o Bullets(Take(post_verification, 20))
                     \o (IF edge_cases # << >>
                         THEN <<"\n","\n","E","d","g","e"," ","C","a","s","e","s",":">> \o Bullets(Take(edge_cases, 5)) ELSE << >>)
                     \o <<"\n","\n","Y","o","u"," ","h","a","v","e"," ","c","u","s","t","o","m","e","r","_","i","d",":"," ">> \o IdText(customer_id)
                ELSE << >>
           ELSE IF pre_verification # << >>
                THEN <<"\n","\n","[","F","L","O","W",":"," ">> \o FlowTitle(flow) \o <<" ","-"," ","V","E","R","I","F","I","C","A","T","I","O","N"," ","R","E","Q","U","I","R","E","D","]">>
                     \o <<"\n","\n","V","e","r","i","f","i","c","a","t","i","o","n"," ","s","t","e","p","s",":">> \o Bullets(Take(pre_verification, 10))
                ELSE << >>
      ELSE IF interaction_pattern # << >>
      THEN <<"\n","\n","[","F","L","O","W",":"," ">> \o FlowTitle(flow) \o <<" ","-"," ","E","S","C","A","L","A","T","I","O","N"," ","R","E","Q","U","I","R","E","D","]">>
           \o (IF strategy_desc # << >> THEN <<"\n">> \o strategy_desc ELSE << >>)
           \o (IF has_max
               THEN <<"\n","\n","?"," ","H","A","R","D"," ","L","I","M","I","T",":"," ","Y","o","u"," ","m","a","y"," ","a","s","k"," ","M","A","X","I","M","U","M"," ">> \o IntText(max_questions)
                    \o <<" ","q","u","e","s","t","i","o","n","(","s",")",","," ","t","h","e","n"," ","y","o","u"," ","M","U","S","T"," ","e","s","c","a","l","a","t","e",".">>
                    \o <<"\n","?"," ","S","T","R","I","C","T"," ","P","R","O","H","I","B","I","T","I","O","N",":"," ","D","o"," ","N","O","T"," ","p","r","o","v","i","d","e"," ","s","o","l","u","t","i","o","n","s",","," ","t","r","o","u","b","l","e","s","h","o","o","t","i","n","g"," ","s","t","e","p","s",","," ","o","r"," ","d","e","t","a","i","l","e","d"," ","i","n","s","t","r","u","c","t","i","o","n","s",".">>
                    \o <<"\n","?"," ","Y","O","U","R"," ","O","N","L","Y"," ","J","O","B",":"," ","G","a","t","h","e","r"," ","b","a","s","i","c"," ","c","o","n","t","e","x","t"," ","(">> \o IntText(max_questions)
                    \o <<" ","q","u","e","s","t","i","o","n"," ","m","a","x",")",","," ","t","h","e","n"," ","t","r","a","n","s","f","e","r"," ","t","o"," ","s","p","e","c","i","a","l","i","s","t",".">>
               ELSE << >>)
           \o <<"\n","\n","Y","o","u","r"," ","e","x","a","c","t"," ","a","p","p","r","o","a","c","h",":">>
           \o PatternLines(interaction_pattern)
           \o (IF escalation_msg # << >>
               THEN <<"\n","\n","?"," ","A","f","t","e","r"," ">> \o IntText(IF has_max THEN max_questions ELSE 2)
                    \o <<" ","q","u","e","s","t","i","o","n","(","s",")",","," ","y","o","u"," ","M","U","S","T"," ","s","a","y",":">> \o <<"\n","\"">> \o escalation_msg \o <<"\"">>
               ELSE << >>)
      ELSE << >>

\* mutant of build_system_message: the permission note is added whatever is_verified is
build_system_message_AlwaysGrant(config, flow, is_verified_, customer_id) ==
  base_persona(config) \o <<"\n","\n","C","u","r","r","e","n","t"," ","F","l","o","w",":"," ">> \o flow \o <<"\n">> \o workaround_instruction
  \o strict_rule \o tool_execution_style \o termination_safety
  \o flow_specific_instructions(config, flow, is_verified_, customer_id)
  \o permission_note(config, flow, customer_id)

\* FlowExecutor._build_system_message
build_system_message(config, flow, is_verified_, customer_id) ==
  base_persona(config) \o <<"\n","\n","C","u","r","r","e","n","t"," ","F","l","o","w",":"," ">> \o flow \o <<"\n">> \o workaround_instruction
  \o strict_rule \o tool_execution_style \o termination_safety
  \o flow_specific_instructions(config, flow, is_verified_, customer_id)
  \o (IF is_verified_ THEN permission_note(config, flow, customer_id) ELSE << >>)
(***************************************************************************)
(* Inputs: what the user says and what the generation service answers      *)
(***************************************************************************)

\* bound on the generation calls of the Executor in one session
MaxExec == 2

\* bound on the generation calls of the Executor over two connections served together
MaxSessionsExec == 1

\* inbound user utterances
Utterances ==
  {<<"P","l","e","a","s","e"," ","b","l","o","c","k"," ","m","y"," ","c","a","r","d">>, <<"T","h","a","n","k","s",","," ","b","y","e">>, <<"w","h","a","t"," ","i","s"," ","m","y"," ","b","a","l","a","n","c","e">>, <<"A","T","M"," ","n","o","t"," ","w","o","r","k","i","n","g">>}

\* answers of the generation service to the Router's classification request
RouterAnswers == {<<"a","c","c","o","u","n","t","_","s","e","r","v","i","c","i","n","g">>, <<" ","G","e","n","e","r","a","l","\n">>, <<"c","a","r","d"," ","i","s","s","u","e","s">>}

NoArgs == [none |-> NoneVal]
VerifyArgs(acc, pin) ==
  [account_number |-> acc, phone |-> NoneVal, customer_id |-> NoneVal, pin |-> pin]

CallVerifyOk1 == [name |-> "t_verify_identity", args |-> VerifyArgs(<<"1","0","0","1">>, <<"1","2","3","4">>)]
CallVerifyOk2 == [name |-> "t_verify_identity", args |-> VerifyArgs(<<"1","0","0","2">>, <<"4","3","2","1">>)]
CallVerifyBad == [name |-> "t_verify_identity", args |-> VerifyArgs(<<"1","0","0","1">>, <<"0","0","0","0">>)]
CallBlock1 == [name |-> "t_block_card", args |-> [customer_id |-> <<"C","0","0","1">>]]
CallEnd == [name |-> "t_end_call", args |-> NoArgs]

TextEmpty == << >>
TextBye == <<"G","o","o","d","b","y","e","!">>
TextHelp == <<"H","o","w"," ","c","a","n"," ","I"," ","h","e","l","p"," ","y","o","u","?">>

\* answers of the generation service to the Executor: text and requested tool calls
Responses ==
  { [content |-> TextHelp, tool_calls |-> << >>],
    [content |-> TextEmpty, tool_calls |-> << >>],
    [content |-> TextEmpty, tool_calls |-> << CallVerifyOk1 >>],
    [content |-> TextEmpty, tool_calls |-> << CallVerifyOk2 >>],
    [content |-> TextEmpty, tool_calls |-> << CallVerifyBad >>],
    [content |-> TextEmpty, tool_calls |-> << CallBlock1 >>],
    [content |-> TextBye, tool_calls |-> << CallEnd >>],
    [content |-> TextHelp, tool_calls |-> << CallEnd >>],
    [content |-> TextEmpty, tool_calls |-> << CallEnd >>],
    [content |-> TextBye, tool_calls |-> << CallBlock1, CallEnd >>],
    [content |-> TextBye, tool_calls |-> << CallEnd, CallBlock1 >>],
    [content |-> TextEmpty, tool_calls |-> << CallVerifyOk1, CallBlock1 >>] }

\* tool calls the generation service can request, for the run of the tools node:
\* every combination of the identifiers and PINs below, known and unknown customer
\* ids, and one call of each of the other registered tools
VerifyCalls ==
  { [name |-> "t_verify_identity",
     args |-> [account_number |-> a, phone |-> ph, customer_id |-> c, pin |-> p]] :
      a \in {NoneVal, <<"1","0","0","1">>, <<"1","0","0","2">>, <<"9","9","9","9">>}, ph \in {NoneVal, <<"5","5","5","1","0","0","3">>},
      c \in {NoneVal, << >>, <<"C","0","0","3">>}, p \in {NoneVal, << >>, <<"1","2","3","4">>, <<"4","3","2","1">>} }
AccountCalls ==
  { [name |-> n, args |-> [customer_id |-> c]] :
      n \in {"t_get_balance", "t_get_transactions", "t_block_card"},
      c \in {<<"C","0","0","1">>, <<"C","9","9","9">>, << >>} }
OtherCalls ==
  { [name |-> "t_support_ticket",
     args |-> [issue_type |-> <<"I","d","e","n","t","i","t","y"," ","V","e","r","i","f","i","e","d"," ","s","u","c","c","e","s","s","f","u","l","l","y">>, description |-> <<"a","p","p">>]],
    [name |-> "t_check_eligibility", args |-> [product_type |-> <<"l","o","a","n">>]],
    [name |-> "t_transfer_funds", args |-> [amount |-> <<"5",".","0">>, beneficiary |-> <<"B","o","b">>]],
    [name |-> "t_close_account_request", args |-> [reason |-> <<"m","o","v","i","n","g">>]],
    CallEnd }
ToolCalls == VerifyCalls \cup AccountCalls \cup OtherCalls

\* the correlation ids the generation service gives the tool calls of its n-th response
WithIds(response, n) ==
  [response EXCEPT !.tool_calls =
     [k \in 1..Len(response.tool_calls) |->
        [name |-> response.tool_calls[k].name, args |-> response.tool_calls[k].args,
         id |-> 10 * n + k]]]

(***************************************************************************)
(* State                                                                   *)
(***************************************************************************)

VARIABLES
  messages,      \* session_state["messages"]: the transcript
  customer_id,   \* session_state["customer_id"]
  is_verified,   \* session_state["is_verified"]
  is_call_over,  \* session_state["is_call_over"]
  active_flow,   \* session_state["active_flow"] ('general' while the key is absent)
  customers,     \* the content of the customers file
  pc,            \* where the session loop and the graph run are
  response,      \* FlowExecutor.__call__: the generation service's last response, unfiltered
  dispatched,    \* the tool calls the ToolNode executed in its last run, with the state it ran in
  config_file,   \* the configuration file settings.PROMPTS_FILE names, as load_prompts finds it
  prompts,       \* FlowConfig.__init__: self.config, settings.PROMPTS as it was when the graph was built
  classification, \* RouterNode.__call__: the generation service's answer in the last pass, None when it was not asked
  bound_tools,   \* FlowExecutor.__call__: the tools bound to the generation service in the last pass
  conn,          \* the connection whose websocket_endpoint coroutine the event loop is running
  sessions,      \* the session_state and position of the suspended websocket_endpoint coroutines
  file_state,    \* what a reader finds in the customers file: the complete JSON of customers, nothing, or a part
  workers,       \* the thread-pool workers that run the functions of backend/tools.py
  sys_msg,       \* FlowExecutor._build_system_message: the directive text last built, None before
  settings_PROMPTS, \* settings.PROMPTS, which reload_prompts rebinds
  sent,          \* websocket.send_text: the messages sent to the client since its last inbound message, the greeting left out
  silence_count  \* websocket_endpoint: the consecutive timeout signals counted

vars == << messages, customer_id, is_verified, is_call_over, active_flow, customers, pc,
           response, dispatched, config_file, prompts, classification, bound_tools,
           conn, sessions, file_state, workers, sys_msg, settings_PROMPTS, sent, silence_count >>

\* the connections served
Connections == {"A", "B"}
Other(c) == IF c = "A" THEN "B" ELSE "A"

\* mutant of session_key: one session_state at module level, shared by the handlers
session_key_ModuleLevel(c) == "A"

\* websocket_endpoint: session_state is a local variable, one per call of the handler
session_key(c) == c

\* the local variables of a handler that has accepted its connection and sent the greeting
InitFrame ==
  [messages |-> << >>, customer_id |-> NoneVal, is_verified |-> FALSE, is_call_over |-> FALSE,
   active_flow |-> GENERAL, pc |-> "wait", response |-> NoneRec, dispatched |-> << >>,
   classification |-> NoneVal, bound_tools |-> << >>, sent |-> << >>, silence_count |-> 0]

\* the local variables of the running handler
Frame ==
  [messages |-> messages, customer_id |-> customer_id, is_verified |-> is_verified,
   is_call_over |-> is_call_over, active_flow |-> active_flow, pc |-> pc, response |-> response,
   dispatched |-> dispatched, classification |-> classification, bound_tools |-> bound_tools,
   sent |-> sent, silence_count |-> silence_count]

InitSessions == [k \in {session_key(c) : c \in Connections} |-> InitFrame]

\* the workers of the thread pool, and a worker that runs nothing
Workers == {1, 2}
IdleWorker == [op |-> [name |-> "", arg |-> << >>], pc |-> "idle", local |-> << >>,
               raised |-> FALSE, ok |-> FALSE]
InitWorkers == [w \in Workers |-> IdleWorker]

\* websocket_endpoint: the state after accept() and the greeting
Init ==
  /\ messages = << >>
  /\ customer_id = NoneVal
  /\ is_verified = FALSE
  /\ is_call_over = FALSE
  /\ active_flow = GENERAL
  /\ customers = SeedCustomers
  /\ pc = "wait"
  /\ response = NoneRec
  /\ dispatched = << >>
  /\ config_file = JsonFile(PROMPTS)
  /\ prompts = load_prompts(config_file)
  /\ classification = NoneVal
  /\ bound_tools = << >>
  /\ conn = "A"
  /\ sessions = InitSessions
  /\ file_state = "complete"
  /\ workers = InitWorkers
  /\ sys_msg = NoneVal
  /\ settings_PROMPTS = prompts
  /\ sent = << >>
  /\ silence_count = 0

\* a turn of a new session at the tools node: the user asked for the balance, the
\* Router's classification was coerced to 'general', and the generation service
\* answered with one tool call
InitTools ==
  /\ \E call \in ToolCalls :
       LET resp == WithIds([content |-> TextEmpty, tool_calls |-> << call >>], 1)
       IN  /\ response = resp
           /\ messages = << HumanMessage(<<"w","h","a","t"," ","i","s"," ","m","y"," ","b","a","l","a","n","c","e">>),
                            AIMessage(resp.content, resp.tool_calls) >>
  /\ customer_id = NoneVal
  /\ is_verified = FALSE
  /\ is_call_over = FALSE
  /\ active_flow = GENERAL
  /\ customers = SeedCustomers
  /\ pc = "tools"
  /\ dispatched = << >>
  /\ config_file = JsonFile(PROMPTS)
  /\ prompts = load_prompts(config_file)
  /\ classification = <<"c","a","r","d"," ","i","s","s","u","e","s">>
  /\ bound_tools = get_tools_for_flow(load_prompts(JsonFile(PROMPTS)), GENERAL)
  /\ conn = "A"
  /\ sessions = InitSessions
  /\ file_state = "complete"
  /\ workers = InitWorkers
  /\ sys_msg = NoneVal
  /\ settings_PROMPTS = prompts
  /\ sent = << >>
  /\ silence_count = 0

\* configuration files: the three ways loading fails, the shipped flows, a file
\* whose tool lists repeat names and name an unregistered tool, and a file that
\* configures 'general' itself
CONFIG_REPEATS ==
  [routing_flows |->
     (CARD_ATM_ISSUES :> [tools |-> <<"t_verify_identity", "t_block_card", "t_verify_identity">>,
                          requires_verification |-> TRUE])
  @@ (ACCOUNT_SERVICING :> [tools |-> <<"t_end_call", "t_get_balance", "t_update_address">>,
                            requires_verification |-> TRUE])]
CONFIG_GENERAL ==
  [routing_flows |->
     (GENERAL :> [tools |-> <<"t_check_eligibility", "t_end_call">>,
                  requires_verification |-> TRUE])
  @@ (ACCOUNT_SERVICING :> [tools |-> <<"t_verify_identity", "t_get_balance">>,
                            requires_verification |-> FALSE])]
ConfigFiles ==
  {FILE_MISSING, FILE_MALFORMED, FILE_UNREADABLE, JsonFile(PROMPTS), JsonFile(CONFIG_REPEATS),
   JsonFile(CONFIG_GENERAL)}

\* a new session of a process that started with any of the configuration files
InitConfig ==
  /\ config_file \in ConfigFiles
  /\ prompts = load_prompts(config_file)
  /\ messages = << >>
  /\ customer_id = NoneVal
  /\ is_verified = FALSE
  /\ is_call_over = FALSE
  /\ active_flow = GENERAL
  /\ customers = SeedCustomers
  /\ pc = "wait"
  /\ response = NoneRec
  /\ dispatched = << >>
  /\ classification = NoneVal
  /\ bound_tools = << >>
  /\ conn = "A"
  /\ sessions = InitSessions
  /\ file_state = "complete"
  /\ workers = InitWorkers
  /\ sys_msg = NoneVal
  /\ settings_PROMPTS = prompts
  /\ sent = << >>
  /\ silence_count = 0

\* mutant of add_messages: the update replaces the list (a state key without reducer)
add_messages_Overwrite(left, right) == right

\* AgentState.messages: the reducer that merges a node's returned messages into
\* the state; the messages the nodes return are new ones, which it appends
add_messages(left, right) == left \o right

(***************************************************************************)
(* The session loop and the graph                                          *)
(***************************************************************************)

\* websocket_endpoint: a non-empty user text arrives; the silence count is reset, the
\* text is appended and the graph starts
Receive ==
  /\ pc = "wait"
  /\ NumAI(messages) < MaxExec
  /\ \E user_text \in Utterances :
       messages' = Append(messages, HumanMessage(user_text))
  /\ pc' = "router"
  /\ dispatched' = << >>
  /\ silence_count' = 0
  /\ sent' = << >>
  /\ UNCHANGED << sys_msg, settings_PROMPTS, conn, sessions, file_state, workers, customer_id, is_verified, is_call_over, active_flow, customers, response,
                  config_file, prompts, classification, bound_tools >>

\* the client goes away while the loop waits: WebSocketDisconnect
Disconnect ==
  /\ pc = "wait"
  /\ pc' = "closed"
  /\ UNCHANGED << sys_msg, settings_PROMPTS, sent, silence_count, conn, sessions, file_state, workers, messages, customer_id, is_verified, is_call_over, active_flow, customers,
                  response, dispatched, config_file, prompts, classification, bound_tools >>

\* graph node "router"
Router ==
  /\ pc = "router"
  /\ \E answer \in (IF RouterNeedsLLM(messages, active_flow) THEN RouterAnswers ELSE {NoneVal}) :
       /\ classification' = answer
       /\ active_flow' = RouterNode(prompts, messages, active_flow, answer)
  /\ pc' = "gate"
  /\ UNCHANGED << sys_msg, settings_PROMPTS, sent, silence_count, conn, sessions, file_state, workers, messages, customer_id, is_verified, is_call_over, customers, response,
                  dispatched, config_file, prompts, bound_tools >>

\* graph node "gate"
Gate ==
  /\ pc = "gate"
  /\ LET u == VerificationGate(prompts, messages, active_flow, is_verified)
     IN  /\ is_verified' = IF "is_verified" \in u.set THEN u.is_verified ELSE is_verified
         /\ customer_id' = IF "customer_id" \in u.set THEN u.customer_id ELSE customer_id
         /\ messages' = add_messages(messages, u.messages)
  /\ pc' = "agent"
  /\ UNCHANGED << sys_msg, settings_PROMPTS, sent, silence_count, conn, sessions, file_state, workers, is_call_over, active_flow, customers, response, dispatched, config_file, prompts,
                  classification, bound_tools >>

\* graph node "agent" and the conditional edge after it
Executor ==
  /\ pc = "agent"
  /\ NumAI(messages) < MaxExec
  /\ bound_tools' = get_tools_for_flow(prompts, active_flow)
  /\ \E r \in Responses :
       LET resp == WithIds(r, NumAI(messages) + 1)
           u == FlowExecutor(resp, messages)
       IN  /\ response' = resp
           /\ messages' = add_messages(messages, u.messages)
           /\ is_call_over' = u.is_call_over
           /\ pc' = IF should_continue(u.is_call_over, add_messages(messages, u.messages)) = "tools"
                    THEN "tools" ELSE "respond"
  /\ UNCHANGED << sys_msg, settings_PROMPTS, sent, silence_count, conn, sessions, file_state, workers, customer_id, is_verified, active_flow, customers, dispatched, config_file, prompts,
                  classification >>

\* the generation service fails (Router or Executor): the exception leaves the graph
\* and the websocket handler, whose finally clause closes the connection
LLMFailure ==
  /\ \/ pc = "agent"
     \/ (pc = "router" /\ RouterNeedsLLM(messages, active_flow))
  /\ pc' = "crashed"
  /\ UNCHANGED << sys_msg, settings_PROMPTS, sent, silence_count, conn, sessions, file_state, workers, messages, customer_id, is_verified, is_call_over, active_flow, customers,
                  response, dispatched, config_file, prompts, classification, bound_tools >>

\* mutant of RunTools: the ToolMessages come back in the order the tools finish,
\* the last call first
RECURSIVE RunTools_LastFirst(_, _, _, _, _)
RunTools_LastFirst(custs, cs, verified, cid, flow) ==
  IF cs = << >> THEN [store |-> custs, messages |-> << >>, log |-> << >>]
  ELSE LET one == RunTool(custs, Head(cs))
           rest == RunTools_LastFirst(one.store, Tail(cs), verified, cid, flow)
       IN  [store |-> rest.store,
            messages |-> rest.messages \o << ToolMessage(one.text, Head(cs).name, Head(cs).id) >>,
            log |-> << [name |-> Head(cs).name, id |-> Head(cs).id, args |-> Head(cs).args,
                        text |-> one.text, is_verified |-> verified, customer_id |-> cid,
                        active_flow |-> flow] >> \o rest.log]

\* the ToolNode run over the calls cs: (store, ToolMessages, dispatch records)
RECURSIVE RunTools(_, _, _, _, _)
RunTools(custs, cs, verified, cid, flow) ==
  IF cs = << >> THEN [store |-> custs, messages |-> << >>, log |-> << >>]
  ELSE LET one == RunTool(custs, Head(cs))
           rest == RunTools(one.store, Tail(cs), verified, cid, flow)
       IN  [store |-> rest.store,
            messages |-> << ToolMessage(one.text, Head(cs).name, Head(cs).id) >> \o rest.messages,
            log |-> << [name |-> Head(cs).name, id |-> Head(cs).id, args |-> Head(cs).args,
                        text |-> one.text, is_verified |-> verified, customer_id |-> cid,
                        active_flow |-> flow] >> \o rest.log]

\* graph node "tools": ToolNode(get_all_tools()) executes the tool calls of the last message
Tools ==
  /\ pc = "tools"
  /\ LET r == RunTools(customers, messages[Len(messages)].tool_calls, is_verified, customer_id,
                      active_flow)
     IN  /\ customers' = r.store
         /\ messages' = add_messages(messages, r.messages)
         /\ dispatched' = r.log
  /\ pc' = "gate"
  /\ UNCHANGED << sys_msg, settings_PROMPTS, sent, silence_count, conn, sessions, file_state, workers, customer_id, is_verified, is_call_over, active_flow, response, config_file, prompts,
                  classification, bound_tools >>

\* an audio message as websocket.send_text sends it
AudioMessage(text) == [type |-> "audio", content |-> text]
TextMessage(text) == [type |-> "text", content |-> text]

\* generate_contextual_response: the text of the generation service, stripped, or the
\* fallback of the situation when it is empty or the service fails
FallbackResponses ==
  [nudge |-> <<"A","r","e"," ","y","o","u"," ","s","t","i","l","l"," ","t","h","e","r","e","?">>,
   closing_silence |-> <<"I"," ","a","m"," ","n","o","t"," ","h","e","a","r","i","n","g"," ","a","n","y"," ","r","e","s","p","o","n","s","e","."," ","G","o","o","d","b","y","e",".">>,
   closing_goodbye |-> <<"T","h","a","n","k"," ","y","o","u"," ","f","o","r"," ","c","a","l","l","i","n","g","."," ","G","o","o","d","b","y","e",".">>]
GeneratedTexts == {TextEmpty, <<" "," ">>, <<" ","G","o","o","d","b","y","e"," ","f","o","r"," ","n","o","w","."," ">>}
generate_contextual_response(situation) ==
  {IF Strip(t) # << >> THEN Strip(t) ELSE <<"A","r","e"," ","y","o","u"," ","s","t","i","l","l"," ","t","h","e","r","e","?">> : t \in GeneratedTexts}
    \cup {FallbackResponses[situation]}

\* mutant of Respond: no goodbye is generated when the agent's text is empty
Respond_NoGoodbye ==
  /\ pc = "respond"
  /\ LET response_text == messages[Len(messages)].content
     IN  sent' = IF response_text # << >> THEN << AudioMessage(response_text) >> ELSE << >>
  /\ pc' = IF is_call_over THEN "closed" ELSE "wait"
  /\ UNCHANGED << sys_msg, settings_PROMPTS, silence_count, conn, sessions, file_state, workers,
                  messages, customer_id, is_verified, is_call_over, active_flow, customers,
                  response, dispatched, config_file, prompts, classification, bound_tools >>

\* routes/websocket.py: the graph returned; the text of the last message, or a
\* generated goodbye when it is empty and the call is over, is sent, and the loop
\* breaks when the call is over
Respond ==
  /\ pc = "respond"
  /\ LET last_text == messages[Len(messages)].content
     IN  \E response_text \in (IF last_text = << >> /\ is_call_over
                               THEN generate_contextual_response("closing_goodbye")
                               ELSE {last_text}) :
           sent' = IF response_text # << >> THEN << AudioMessage(response_text) >> ELSE << >>
  /\ pc' = IF is_call_over THEN "closed" ELSE "wait"
  /\ UNCHANGED << sys_msg, settings_PROMPTS, silence_count, conn, sessions, file_state, workers, messages, customer_id, is_verified, is_call_over, active_flow, customers,
                  response, dispatched, config_file, prompts, classification, bound_tools >>

\* main.py: the graph returned; a non-empty text is sent as text and again with its
\* audio, and the loop goes on
RespondMain ==
  /\ pc = "respond"
  /\ LET response_text == messages[Len(messages)].content
     IN  sent' = IF response_text # << >>
                 THEN << TextMessage(response_text), AudioMessage(response_text) >> ELSE << >>
  /\ pc' = "wait"
  /\ UNCHANGED << sys_msg, settings_PROMPTS, silence_count, conn, sessions, file_state, workers, messages, customer_id, is_verified, is_call_over, active_flow, customers,
                  response, dispatched, config_file, prompts, classification, bound_tools >>

\* the event loop suspends the running handler at an await and resumes the handler
\* of the other connection: each handler keeps its own local variables
Switch ==
  /\ pc \in {"wait", "agent", "closed", "crashed"}
  /\ sessions[session_key(Other(conn))].pc \notin {"closed", "crashed"}
  /\ LET stored == [sessions EXCEPT ![session_key(conn)] = Frame]
         f == stored[session_key(Other(conn))]
     IN  /\ messages' = f.messages
         /\ customer_id' = f.customer_id
         /\ is_verified' = f.is_verified
         /\ is_call_over' = f.is_call_over
         /\ active_flow' = f.active_flow
         /\ pc' = f.pc
         /\ response' = f.response
         /\ dispatched' = f.dispatched
         /\ classification' = f.classification
         /\ bound_tools' = f.bound_tools
         /\ sent' = f.sent
         /\ silence_count' = f.silence_count
         /\ sessions' = [stored EXCEPT ![session_key(Other(conn))] = InitFrame]
  /\ conn' = Other(conn)
  /\ UNCHANGED << customers, config_file, prompts, file_state, workers, sys_msg, settings_PROMPTS >>

Next ==
  \/ Receive
  \/ Disconnect
  \/ Router
  \/ Gate
  \/ Executor
  \/ LLMFailure
  \/ Tools
  \/ Respond

Spec == Init /\ [][Next]_vars

\* the session loop of main.py over the same graph
NextMain ==
  \/ Receive
  \/ Disconnect
  \/ Router
  \/ Gate
  \/ Executor
  \/ LLMFailure
  \/ Tools
  \/ RespondMain

SpecMain == Init /\ [][NextMain]_vars

\* the rest of a turn from the tools node on
NextTools ==
  \/ Tools
  \/ Gate
  \/ Executor
  \/ LLMFailure
  \/ Respond
  \/ Disconnect

SpecTools == InitTools /\ [][NextTools]_vars

SpecConfig == InitConfig /\ [][Next]_vars

\* the generation calls of the Executor so far, over the connections
GenerationCalls == NumAI(messages) + NumAI(sessions[session_key(Other(conn))].messages)

\* Receive and Executor of the running handler, within the bound over the connections
SessionsReceive == GenerationCalls < MaxSessionsExec /\ Receive
SessionsExecutor == GenerationCalls < MaxSessionsExec /\ Executor

\* two connections served by one event loop over the same graph
NextSessions ==
  \/ SessionsReceive
  \/ Disconnect
  \/ Router
  \/ Gate
  \/ SessionsExecutor
  \/ LLMFailure
  \/ Tools
  \/ Respond
  \/ Switch

SpecSessions == Init /\ [][NextSessions]_vars

(***************************************************************************)
(* The customers file under concurrent tool calls (backend/tools.py)       *)
(***************************************************************************)

\* the calls of backend/tools.py the tools of two sessions make
StoreOps ==
  { [name |-> "block_card", arg |-> <<"C","A","R","D","1","0","0","1">>],
    [name |-> "block_card", arg |-> <<"C","A","R","D","1","0","0","2">>],
    [name |-> "block_card", arg |-> <<"C","A","R","D","9","9","9","9">>],
    [name |-> "verify_identity", arg |-> <<"C","0","0","1">>],
    [name |-> "get_account_balance", arg |-> <<"C","0","0","1">>],
    [name |-> "get_recent_transactions", arg |-> <<"C","0","0","1">>],
    [name |-> "get_customer_by_id", arg |-> <<"C","0","0","2">>] }

SessionVars ==
  << messages, customer_id, is_verified, is_call_over, active_flow, pc, response, dispatched,
     config_file, prompts, classification, bound_tools, conn, sessions, sys_msg,
     settings_PROMPTS, sent, silence_count >>

\* a tool function is called on a worker thread
StoreCall ==
  /\ \E w \in Workers, op \in StoreOps :
       /\ workers[w].pc = "idle"
       /\ workers' = [workers EXCEPT ![w] = [IdleWorker EXCEPT !.op = op, !.pc = "load"]]
  /\ UNCHANGED << customers, file_state >>
  /\ UNCHANGED SessionVars

\* _load_customers and the loop over the list: json.load raises on a file that is
\* empty or partly written; block_card goes on to save when it found the card, the
\* other functions return
StoreLoad ==
  /\ \E w \in Workers :
       /\ workers[w].pc = "load"
       /\ workers' =
            [workers EXCEPT ![w] =
               IF file_state # "complete"
               THEN [@ EXCEPT !.pc = "done", !.raised = TRUE]
               ELSE IF @.op.name = "block_card"
               THEN LET r == block_card(customers, @.op.arg)
                    IN  IF r.ok THEN [@ EXCEPT !.pc = "save", !.local = r.store]
                        ELSE [@ EXCEPT !.pc = "done", !.local = customers, !.ok = FALSE]
               ELSE [@ EXCEPT !.pc = "done", !.local = customers, !.ok = TRUE]]
  /\ UNCHANGED << customers, file_state >>
  /\ UNCHANGED SessionVars

\* _save_customers: open(CUSTOMERS_FILE, 'w') truncates the file
StoreOpen ==
  /\ \E w \in Workers :
       /\ workers[w].pc = "save"
       /\ workers' = [workers EXCEPT ![w].pc = "dump"]
  /\ file_state' = "empty"
  /\ UNCHANGED customers
  /\ UNCHANGED SessionVars

\* _save_customers: json.dump has written a part of the text
StoreFlush ==
  /\ \E w \in Workers : workers[w].pc = "dump"
  /\ file_state # "partial"
  /\ file_state' = "partial"
  /\ UNCHANGED << customers, workers >>
  /\ UNCHANGED SessionVars

\* _save_customers: the with block closes the file, the text is complete;
\* block_card returns True
StoreClose ==
  /\ \E w \in Workers :
       /\ workers[w].pc = "dump"
       /\ customers' = workers[w].local
       /\ workers' = [workers EXCEPT ![w].pc = "done", ![w].ok = TRUE]
  /\ file_state' = "complete"
  /\ UNCHANGED SessionVars

NextStore ==
  \/ StoreCall
  \/ StoreLoad
  \/ StoreOpen
  \/ StoreFlush
  \/ StoreClose

\* the tool functions of two sessions on the worker threads
SpecStore == Init /\ [][NextStore]_vars

(***************************************************************************)
(* The directive of a pass of the Executor, over its inputs                *)
(***************************************************************************)

\* a configuration file with a persona, flow instructions, strategies and an
\* escalation flow
CONFIG_INSTRUCTIONS ==
  [system_persona |-> <<"Y","o","u"," ","a","r","e"," ","A","v","a"," ","o","f"," ","B","a","n","k"," ","A","B","C",".">>,
   escalation_strategies |->
     [escalation_message_templates |-> (<<"l","o","a","n","s">> :> <<"A"," ","l","o","a","n"," ","o","f","f","i","c","e","r"," ","w","i","l","l"," ","c","a","l","l"," ","y","o","u"," ","b","a","c","k",".">>),
      shallow_flows_default_message |-> <<"I"," ","w","i","l","l"," ","t","r","a","n","s","f","e","r"," ","y","o","u"," ","n","o","w",".">>],
   routing_flows |->
     (CARD_ATM_ISSUES :>
        [tools |-> <<"t_verify_identity", "t_block_card">>,
         requires_verification |-> TRUE,
         conversation_strategy |-> [description |-> <<"R","e","s","o","l","v","e"," ","c","a","r","d"," ","p","r","o","b","l","e","m","s"," ","d","i","r","e","c","t","l","y",".">>],
         flow_instructions |->
           [pre_verification |-> << <<"A","s","k"," ","f","o","r"," ","t","h","e"," ","a","c","c","o","u","n","t"," ","n","u","m","b","e","r"," ","a","n","d"," ","t","h","e"," ","P","I","N">>,
                                    <<"C","a","l","l"," ","t","_","v","e","r","i","f","y","_","i","d","e","n","t","i","t","y"," ","w","i","t","h"," ","w","h","a","t"," ","t","h","e"," ","c","a","l","l","e","r"," ","g","a","v","e">> >>,
            post_verification |-> << <<"C","o","n","f","i","r","m"," ","w","h","i","c","h"," ","c","a","r","d"," ","i","s"," ","m","e","a","n","t">>,
                                     <<"B","l","o","c","k"," ","t","h","e"," ","c","a","r","d"," ","w","i","t","h"," ","t","_","b","l","o","c","k","_","c","a","r","d"," ","a","t"," ","o","n","c","e">> >>,
            edge_cases |-> << <<"T","h","e"," ","c","a","r","d"," ","i","s"," ","b","l","o","c","k","e","d"," ","a","l","r","e","a","d","y",":"," ","s","a","y"," ","s","o">> >>]])
  @@ (ACCOUNT_SERVICING :>
        [tools |-> <<"t_verify_identity", "t_get_balance", "t_get_transactions">>,
         requires_verification |-> TRUE,
         flow_instructions |->
           [post_verification |-> << <<"R","e","a","d"," ","t","h","e"," ","b","a","l","a","n","c","e"," ","f","r","o","m"," ","t","_","g","e","t","_","b","a","l","a","n","c","e">> >>]])
  @@ (DIGITAL_APP_SUPPORT :>
        [tools |-> <<"t_support_ticket">>,
         requires_verification |-> FALSE,
         max_questions_before_escalation |-> 1,
         conversation_strategy |-> [description |-> <<"G","a","t","h","e","r"," ","c","o","n","t","e","x","t",","," ","t","h","e","n"," ","h","a","n","d"," ","o","v","e","r",".">>],
         flow_instructions |->
           [interaction_pattern |-> << <<"S","T","R","I","C","T"," ","R","U","L","E",":"," ","a","s","k"," ","w","h","a","t"," ","t","h","e"," ","a","p","p"," ","s","h","o","w","s">>,
                                       <<"O","p","e","n"," ","a"," ","t","i","c","k","e","t"," ","w","i","t","h"," ","t","_","s","u","p","p","o","r","t","_","t","i","c","k","e","t">> >>]])
  @@ (<<"l","o","a","n","s">> :>
        [tools |-> <<"t_check_eligibility">>,
         requires_verification |-> FALSE,
         flow_instructions |->
           [interaction_pattern |-> << <<"A","s","k"," ","w","h","i","c","h"," ","l","o","a","n"," ","i","s"," ","m","e","a","n","t">> >>]])]

DirectiveConfigFiles == {JsonFile(PROMPTS), JsonFile(CONFIG_INSTRUCTIONS), FILE_MISSING}
DirectiveFlows == {GENERAL, CARD_ATM_ISSUES, ACCOUNT_SERVICING, DIGITAL_APP_SUPPORT, <<"l","o","a","n","s">>}
DirectiveCustomerIds == {NoneVal, <<"C","0","0","1">>, <<"C","0","0","2">>}

\* a pass of the Executor is about to build its directive: any configuration, flow,
\* verification state and customer id
InitDirective ==
  /\ config_file \in DirectiveConfigFiles
  /\ prompts = load_prompts(config_file)
  /\ settings_PROMPTS = prompts
  /\ active_flow \in DirectiveFlows
  /\ is_verified \in BOOLEAN
  /\ customer_id \in DirectiveCustomerIds
  /\ messages = << HumanMessage(<<"P","l","e","a","s","e"," ","b","l","o","c","k"," ","m","y"," ","c","a","r","d">>) >>
  /\ is_call_over = FALSE
  /\ customers = SeedCustomers
  /\ pc = "agent"
  /\ response = NoneRec
  /\ dispatched = << >>
  /\ classification = NoneVal
  /\ bound_tools = << >>
  /\ conn = "A"
  /\ sessions = InitSessions
  /\ file_state = "complete"
  /\ workers = InitWorkers
  /\ sys_msg = NoneVal
  /\ sent = << >>
  /\ silence_count = 0

\* FlowExecutor.__call__: the directive of the pass is built from the state
BuildSystemMessage ==
  /\ pc = "agent"
  /\ sys_msg = NoneVal
  /\ sys_msg' = build_system_message(prompts, active_flow, is_verified, customer_id)
  /\ UNCHANGED << messages, customer_id, is_verified, is_call_over, active_flow, customers, pc,
                  response, dispatched, config_file, prompts, classification, bound_tools,
                  conn, sessions, file_state, workers, settings_PROMPTS, sent, silence_count >>

NextDirective == BuildSystemMessage

SpecDirective == InitDirective /\ [][NextDirective]_vars

(***************************************************************************)
(* Replacing the configuration while sessions run (backend/routes/admin.py)*)
(***************************************************************************)

\* the documents an administrator puts in place of the shipped one
UpdatedConfigs == {CONFIG_REPEATS, CONFIG_GENERAL}

\* PUT /config: the document is written to the configuration file and
\* settings.reload_prompts() rebinds settings.PROMPTS to what load_prompts returns;
\* the FlowConfig of the compiled graph is not built again
update_configuration ==
  /\ pc \notin {"closed", "crashed"}
  /\ \E config \in UpdatedConfigs :
       /\ config_file # JsonFile(config)
       /\ config_file' = JsonFile(config)
       /\ settings_PROMPTS' = load_prompts(JsonFile(config))
  /\ UNCHANGED << messages, customer_id, is_verified, is_call_over, active_flow, customers, pc,
                  response, dispatched, prompts, classification, bound_tools, conn, sessions,
                  file_state, workers, sys_msg, sent, silence_count >>

NextReload ==
  \/ Receive
  \/ Disconnect
  \/ Router
  \/ Gate
  \/ Executor
  \/ LLMFailure
  \/ Tools
  \/ Respond
  \/ update_configuration

\* a session served while an administrator replaces the configuration
SpecReload == Init /\ [][NextReload]_vars

(***************************************************************************)
(* Silence handling of the session loop (backend/routes/websocket.py)      *)
(***************************************************************************)

MAX_SILENCE_NUDGES == 2

\* mutant of Timeout: the session is closed as soon as the count reaches the maximum
Timeout_CloseAtMaximum ==
  /\ pc = "wait"
  /\ silence_count' = silence_count + 1
  /\ IF silence_count + 1 >= MAX_SILENCE_NUDGES
     THEN /\ \E closing_text \in generate_contextual_response("closing_silence") :
               sent' = << AudioMessage(closing_text) >>
          /\ pc' = "closed"
     ELSE /\ \E nudge_text \in generate_contextual_response("nudge") :
               sent' = << AudioMessage(nudge_text) >>
          /\ pc' = "wait"
  /\ UNCHANGED << messages, customer_id, is_verified, is_call_over, active_flow, customers,
                  response, dispatched, config_file, prompts, classification, bound_tools,
                  conn, sessions, file_state, workers, sys_msg, settings_PROMPTS >>

\* websocket_endpoint: the client reports an idle timeout; the count goes up, and a
\* nudge is sent, or past the maximum a closing message, after which the loop breaks
Timeout ==
  /\ pc = "wait"
  /\ silence_count' = silence_count + 1
  /\ IF silence_count + 1 > MAX_SILENCE_NUDGES
     THEN /\ \E closing_text \in generate_contextual_response("closing_silence") :
               sent' = << AudioMessage(closing_text) >>
          /\ pc' = "closed"
     ELSE /\ \E nudge_text \in generate_contextual_response("nudge") :
               sent' = << AudioMessage(nudge_text) >>
          /\ pc' = "wait"
  /\ UNCHANGED << messages, customer_id, is_verified, is_call_over, active_flow, customers,
                  response, dispatched, config_file, prompts, classification, bound_tools,
                  conn, sessions, file_state, workers, sys_msg, settings_PROMPTS >>

\* websocket_endpoint: an inbound message that is no timeout and carries no speech
\* (audio below MIN_AUDIO_BYTES, an empty transcription, a blank text): the count is
\* reset and the loop waits again
ReceiveSkipped ==
  /\ pc = "wait"
  /\ silence_count' = 0
  /\ sent' = << >>
  /\ UNCHANGED << messages, customer_id, is_verified, is_call_over, active_flow, customers, pc,
                  response, dispatched, config_file, prompts, classification, bound_tools,
                  conn, sessions, file_state, workers, sys_msg, settings_PROMPTS >>

NextSilence ==
  \/ Receive
  \/ ReceiveSkipped
  \/ Timeout
  \/ Disconnect
  \/ Router
  \/ Gate
  \/ Executor
  \/ LLMFailure
  \/ Tools
  \/ Respond

\* the session loop with the timeout signals of the client
SpecSilence == Init /\ [][NextSilence]_vars
(***************************************************************************)
(* Properties                                                              *)
(***************************************************************************)

LastMessage == messages[Len(messages)]

\* the graph has just left the "agent" node: response is the generation service's
\* answer and the last message is the filtered AIMessage made from it
AfterExecutor == pc \in {"tools", "respond"}

ToolNames(calls) == {calls[i].name : i \in 1..Len(calls)}

\* the most recent user utterance contains a goodbye/closing phrase
LastUtteranceIsGoodbye ==
  /\ LastHuman(messages) # NoneRec
  /\ \E p \in goodbye_phrases : Contains(Lower(LastHuman(messages).content), p)

\* the tools that read or change an account
AccountTools == {"t_get_balance", "t_get_transactions", "t_block_card"}

\* the last message is the result of a verification attempt that failed
LastIsFailedVerification ==
  /\ Len(messages) > 0
  /\ LastMessage.type = "tool"
  /\ LastMessage.name = "t_verify_identity"
  /\ ~Contains(LastMessage.content, VERIFIED_MARK)

\* C1: no account tool is dispatched by the tools node while the session is
\* unverified and the active flow requires verification.
C1_NoAccountToolBeforeVerification ==
  \A i \in 1..Len(dispatched) :
    dispatched[i].name \in AccountTools =>
      ~(~dispatched[i].is_verified /\ is_sensitive_flow(PROMPTS, dispatched[i].active_flow))

\* C2: is_verified never goes from true to false (so it goes from false to true at
\* most once in a session).
C2_VerifiedMonotonic == [][is_verified => is_verified']_vars

\* C2 witness: a verified session in which a later verification attempt failed and
\* the Gate has processed the failure
C2_Witness ==
  /\ is_verified
  /\ pc = "agent"
  /\ LastIsFailedVerification

\* C3: is_verified changes only in a Gate pass whose last transcript entry is a
\* ToolResult carrying the verification-success text; a Gate pass over a failed
\* verification result leaves is_verified and customer_id as they were.
C3_OnlyGateOnSuccess ==
  [][ /\ (is_verified' # is_verified => pc = "gate" /\ JustVerified(messages))
      /\ (pc = "gate" /\ LastIsFailedVerification =>
            is_verified' = is_verified /\ customer_id' = customer_id) ]_vars

\* C3 witness: the Gate has processed a failed verification and the session is
\* still unverified
C3_Witness ==
  /\ pc = "agent"
  /\ LastIsFailedVerification
  /\ ~is_verified
  /\ customer_id = NoneVal

\* C4: customer_id is set in the step in which is_verified becomes true, and once
\* set it never changes.
C4_CustomerIdSetOnce ==
  [][ /\ (customer_id # NoneVal => customer_id' = customer_id)
      /\ (customer_id' # customer_id => ~is_verified /\ is_verified') ]_vars

\* C5: once is_call_over is true the session loop takes no further inbound user
\* message and is_call_over stays true.
C5_NoTurnAfterCallOver ==
  [][ is_call_over => /\ is_call_over'
                      /\ ~(pc = "wait" /\ pc' = "router") ]_vars

\* C6: the Executor sets is_call_over only for a response that requests t_end_call,
\* requests no other tool and whose text contains no continuation word.
C6_CallOverOnlyOnCleanEndCall ==
  [][ (pc = "agent" /\ is_call_over') =>
        /\ ToolNames(response'.tool_calls) = {"t_end_call"}
        /\ \A w \in continuation_words : ~Contains(Lower(response'.content), w) ]_vars

\* C6 witness: the Executor has ended the call
C6_Witness ==
  /\ AfterExecutor
  /\ is_call_over

\* C7: is_call_over is true only if the most recent user utterance contains a
\* closing phrase.
C7_CallOverOnlyOnUserGoodbye ==
  is_call_over => LastUtteranceIsGoodbye

\* C8: when t_end_call is requested together with another tool call, the filtered
\* tool-call list contains no t_end_call.
C8_BundledEndCallFiltered ==
  (/\ AfterExecutor
   /\ "t_end_call" \in ToolNames(response.tool_calls)
   /\ ToolNames(response.tool_calls) # {"t_end_call"})
  => "t_end_call" \notin ToolNames(LastMessage.tool_calls)

\* C8 witness: a bundled t_end_call was filtered although the user said goodbye
C8_Witness ==
  /\ AfterExecutor
  /\ "t_end_call" \in ToolNames(response.tool_calls)
  /\ ToolNames(response.tool_calls) # {"t_end_call"}
  /\ LastUtteranceIsGoodbye

\* C9: when the last user utterance has no closing phrase, no t_end_call is left in
\* the Executor's response and the tools node dispatches no t_end_call in that turn.
C9_NoEndCallWithoutGoodbye ==
  (LastHuman(messages) # NoneRec /\ ~LastUtteranceIsGoodbye) =>
     /\ (AfterExecutor => "t_end_call" \notin ToolNames(LastMessage.tool_calls))
     /\ \A i \in 1..Len(dispatched) : dispatched[i].name # "t_end_call"

\* C9 witness: the generation service asked for t_end_call with another tool, the
\* user had not said goodbye, and the tools node has run
C9_Witness ==
  /\ pc = "gate"
  /\ dispatched # << >>
  /\ "t_end_call" \in ToolNames(response.tool_calls)
  /\ ~LastUtteranceIsGoodbye

\* C10: a lone t_end_call with a closing phrase in the last user utterance ends the
\* call and the turn, and a t_end_call that survives filtering is never dispatched
\* by the tools node.
C10_LoneEndCallEndsTurn ==
  /\ (/\ AfterExecutor
      /\ ToolNames(response.tool_calls) = {"t_end_call"}
      /\ LastUtteranceIsGoodbye)
     => (is_call_over /\ pc = "respond")
  /\ \A i \in 1..Len(dispatched) : dispatched[i].name # "t_end_call"

\* the latest user utterance matches a high-priority keyword rule
HighPriorityKeyword ==
  /\ LastHuman(messages) # NoneRec
  /\ LET t == Lower(LastHuman(messages).content)
     IN  \/ (ContainsAny(t, card_actions) /\ ContainsAny(t, card_identifiers))
         \/ (Contains(t, <<"a","t","m">>) /\ ContainsAny(t, atm_issues))

\* C11: when the latest user utterance matches a high-priority keyword rule, the
\* Router pass sets active_flow to card_atm_issues, hands over to the Gate and does
\* not ask the generation service.
C11_KeywordRouteWithoutLLM ==
  [][ (pc = "router" /\ HighPriorityKeyword) =>
        /\ active_flow' = CARD_ATM_ISSUES
        /\ classification' = NoneVal
        /\ pc' = "gate" ]_vars

\* C11 witness: the Router has placed an ATM complaint in card_atm_issues without
\* a classification by the generation service
C11_Witness ==
  /\ pc = "gate"
  /\ HighPriorityKeyword
  /\ Contains(Lower(LastHuman(messages).content), <<"a","t","m">>)
  /\ active_flow = CARD_ATM_ISSUES
  /\ classification = NoneVal

\* C12: when the generation service fails during the Router's classification call,
\* the Router returns active_flow = 'general' and the graph goes on to the Gate.
C12_RouterFailureDegradesToGeneral ==
  [][ (pc = "router" /\ LLMFailure) =>
        /\ active_flow' = GENERAL
        /\ pc' = "gate" ]_vars

\* the flows of the registry: the configured flows and 'general'
RegisteredFlows == (DOMAIN prompts.routing_flows) \cup {GENERAL}

\* C13: a classification that is not a registered flow id is replaced by 'general';
\* one that is a registered flow id is returned as it is.
C13_ClassificationSanitized ==
  [][ (pc = "router" /\ classification' # NoneVal) =>
        LET c == Lower(Strip(classification'))
        IN  active_flow' = IF c \in RegisteredFlows THEN c ELSE GENERAL ]_vars

\* C13 witness: an answer that names no registered flow was replaced by 'general'
C13_Witness ==
  /\ pc = "gate"
  /\ classification # NoneVal
  /\ Lower(Strip(classification)) \notin RegisteredFlows
  /\ active_flow = GENERAL

\* C14: a Gate pass over a verification-success ToolResult sets is_verified; when
\* the text carries no identity handle customer_id is None afterwards, and when it
\* is the success text of a customer of the store customer_id is that customer's id.
C14_HandleParsedOrUnset ==
  [][ (pc = "gate" /\ JustVerified(messages)) =>
        /\ is_verified'
        /\ (~Contains(LastMessage.content, CustomerIdPattern) => customer_id' = NoneVal)
        /\ \A k \in 1..Len(customers) :
             LastMessage.content = VERIFIED_MARK \o <<"."," ","C","u","s","t","o","m","e","r"," ","I","D",":"," ">> \o customers[k].customer_id
               => customer_id' = customers[k].customer_id ]_vars

\* C14 witness: the Gate has verified the session on a success text without a handle
C14_Witness ==
  /\ pc = "agent"
  /\ is_verified
  /\ customer_id = NoneVal
  /\ JustVerified(messages)

\* a tool result that reports a failure
FailureText(text) == ContainsAny(Lower(text), {<<"f","a","i","l">>, <<"n","o","t"," ","f","o","u","n","d">>, <<"e","r","r","o","r">>})

\* C15: while is_verified is true and customer_id is unset, a run of the tools node
\* leaves the store as it is and every account tool it dispatches returns a failure
\* message.
C15_MissingHandleFailsTools ==
  [][ (pc = "tools" /\ is_verified /\ customer_id = NoneVal) =>
        /\ customers' = customers
        /\ \A i \in 1..Len(dispatched') :
             dispatched'[i].name \in AccountTools => FailureText(dispatched'[i].text) ]_vars

\* the customers of the store that the arguments of a verification call match
VerifyMatches(args) ==
  {k \in 1..Len(customers) :
     /\ customers[k].pin = args.pin
     /\ \/ (args.customer_id \notin {NoneVal, << >>} /\ customers[k].customer_id = args.customer_id)
        \/ (args.account_number \notin {NoneVal, << >>} /\ customers[k].account_number = args.account_number)
        \/ (args.phone \notin {NoneVal, << >>} /\ customers[k].profile.phone = args.phone)}

\* C16: a dispatched verification call returns the success text with the id of the
\* first customer in store order whose PIN and at least one supplied non-empty
\* identifier match, and the failure text when there is none.
C16_VerifyFirstMatch ==
  \A i \in 1..Len(dispatched) :
    dispatched[i].name = "t_verify_identity" =>
      LET hits == VerifyMatches(dispatched[i].args)
      IN  IF hits = {}
          THEN dispatched[i].text = <<"I","d","e","n","t","i","t","y"," ","V","e","r","i","f","i","c","a","t","i","o","n"," ","F","a","i","l","e","d","."," ","P","l","e","a","s","e"," ","c","h","e","c","k"," ","t","h","e"," ","d","e","t","a","i","l","s"," ","p","r","o","v","i","d","e","d",".">>
          ELSE \E k \in hits :
                 /\ \A j \in hits : k <= j
                 /\ dispatched[i].text =
                      <<"I","d","e","n","t","i","t","y"," ","V","e","r","i","f","i","e","d"," ","s","u","c","c","e","s","s","f","u","l","l","y","."," ","C","u","s","t","o","m","e","r"," ","I","D",":"," ">> \o customers[k].customer_id

\* C16 witness: a verification call that matched two customers with the same PIN
\* (C001 by account number, C003 by customer id) returned the first one
C16_Witness ==
  /\ pc = "gate"
  /\ \E i \in 1..Len(dispatched) :
       /\ dispatched[i].name = "t_verify_identity"
       /\ Cardinality(VerifyMatches(dispatched[i].args)) = 2
       /\ dispatched[i].text = <<"I","d","e","n","t","i","t","y"," ","V","e","r","i","f","i","e","d"," ","s","u","c","c","e","s","s","f","u","l","l","y","."," ","C","u","s","t","o","m","e","r"," ","I","D",":"," ","C","0","0","1">>

\* C17: an account tool dispatched with a customer id that is not in the store
\* returns a failure text.
C17_UnknownCustomerFails ==
  \A i \in 1..Len(dispatched) :
    (/\ dispatched[i].name \in AccountTools
     /\ \A k \in 1..Len(customers) : customers[k].customer_id # dispatched[i].args.customer_id)
    => FailureText(dispatched[i].text)

\* C18: the tool list the Executor binds for the active flow contains t_end_call
\* exactly once and no tool more than once.
C18_BoundToolsNoDuplicates ==
  bound_tools # << >> =>
    /\ Cardinality({i \in 1..Len(bound_tools) : bound_tools[i] = "t_end_call"}) = 1
    /\ \A i, j \in 1..Len(bound_tools) : bound_tools[i] = bound_tools[j] => i = j

\* flow ids asked of the registry: the shipped ones, 'general' and one nobody configures
FlowIds == {GENERAL, CARD_ATM_ISSUES, ACCOUNT_SERVICING, DIGITAL_APP_SUPPORT, <<"l","o","a","n","s">>}

\* the tools of the 'general' flow with the termination tool: the registered ones
\* among those the configuration gives 'general', t_verify_identity when it gives none
GeneralToolsWithEndCall ==
  LET g == IF GENERAL \in DOMAIN prompts.routing_flows
           THEN SelectSeq(prompts.routing_flows[GENERAL].tools,
                          LAMBDA name : name \in {TOOL_REGISTRY[i] : i \in 1..Len(TOOL_REGISTRY)})
           ELSE << "t_verify_identity" >>
  IN  IF \E i \in 1..Len(g) : g[i] = "t_end_call" THEN g ELSE Append(g, "t_end_call")

\* C19: for a flow id that is not registered get_tools_for_flow returns the general
\* flow's tools plus t_end_call and is_sensitive_flow returns false; the 'general'
\* entry always exists; the Executor binds those tools when the active flow is not
\* registered.
C19_UnknownFlowIsGeneral ==
  /\ GENERAL \in DOMAIN flow_tools(prompts)
  /\ \A f \in FlowIds \ RegisteredFlows :
       /\ get_tools_for_flow(prompts, f) = GeneralToolsWithEndCall
       /\ ~is_sensitive_flow(prompts, f)
  /\ (AfterExecutor /\ active_flow \notin RegisteredFlows) => bound_tools = GeneralToolsWithEndCall

\* C19 witness: the Executor has run in a flow the configuration does not register
C19_Witness ==
  /\ AfterExecutor
  /\ active_flow \notin RegisteredFlows
  /\ bound_tools = GeneralToolsWithEndCall

\* C20: when the configuration file is missing, unparsable or unreadable, the loaded
\* configuration is the built-in default with no flows, and the registry built from
\* it has exactly the 'general' flow and no sensitive flow.
C20_LoadFailureGivesDefault ==
  config_file.error # "" =>
    /\ prompts = [routing_flows |-> << >>]
    /\ DOMAIN flow_tools(prompts) = {GENERAL}
    /\ sensitive_flows(prompts) = {}

\* C20 witness: a session runs on the default after the file failed to parse
C20_Witness ==
  /\ config_file = FILE_MALFORMED
  /\ AfterExecutor
  /\ active_flow = GENERAL

\* the passes of the Executor since the latest user message
ExecutorPassesThisTurn ==
  Cardinality({i \in 1..Len(messages) :
                 /\ messages[i].type = "ai"
                 /\ \A j \in i..Len(messages) : messages[j].type # "human"})

\* C21: within one user message the graph stops routing to the tools node after a
\* fixed number of Executor passes: no pass at or beyond the number of generation
\* calls explored (MaxExec) is followed by another run of the tools node.
C21_ToolCyclesCapped ==
  pc = "tools" => ExecutorPassesThisTurn < MaxExec

\* the store after the cards of the customers ids have been blocked
BlockedStore(custs, ids) ==
  [k \in 1..Len(custs) |->
     IF custs[k].customer_id \in ids THEN [custs[k] EXCEPT !.card_status = <<"b","l","o","c","k","e","d">>]
     ELSE custs[k]]

\* the customer ids of the t_block_card calls among calls
BlockCallIds(calls) ==
  {calls[k].args.customer_id : k \in {j \in 1..Len(calls) : calls[j].name = "t_block_card"}}

BlockSuccessText(text) == Contains(text, <<"h","a","s"," ","b","e","e","n"," ","b","l","o","c","k","e","d"," ","s","u","c","c","e","s","s","f","u","l","l","y">>)

\* C23: a run of the tools node leaves the store as it was except that the card of
\* every known customer named by a t_block_card call is 'blocked', whether or not it
\* was blocked before; each such call reports success, and a t_block_card call for
\* an unknown customer reports failure and changes nothing.
C23_BlockCardIdempotent ==
  [][ pc = "tools" =>
        /\ customers' = BlockedStore(customers, BlockCallIds(LastMessage.tool_calls))
        /\ \A i \in 1..Len(dispatched') :
             dispatched'[i].name = "t_block_card" =>
               IF \E k \in 1..Len(customers) :
                    customers[k].customer_id = dispatched'[i].args.customer_id
               THEN BlockSuccessText(dispatched'[i].text)
               ELSE FailureText(dispatched'[i].text) /\ ~BlockSuccessText(dispatched'[i].text)
      ]_vars

\* C23 witness: the card of C001 has been blocked a second time, with success, and
\* the store is what it was after the first block
C23_Witness ==
  /\ pc = "gate"
  /\ \E i \in 1..Len(dispatched) :
       dispatched[i].name = "t_block_card" /\ BlockSuccessText(dispatched[i].text)
  /\ Cardinality({i \in 1..Len(messages) :
                    messages[i].type = "tool" /\ BlockSuccessText(messages[i].content)}) = 2
  /\ customers = BlockedStore(SeedCustomers, {<<"C","0","0","1">>})

\* C24: within a turn the graph runs router, gate, agent and then tools, gate,
\* agent any number of times; the router runs only on a new user message and
\* active_flow changes nowhere else; the tools node is entered only from the agent
\* node, when the filtered response has tool calls and is_call_over is false.
C24_TurnOrder ==
  [][ /\ (pc = "router" => pc' \in {"gate", "crashed"})
      /\ (pc = "gate" => pc' = "agent")
      /\ (pc = "agent" => pc' \in {"tools", "respond", "crashed"})
      /\ (pc = "tools" => pc' = "gate")
      /\ (pc' = "router" =>
            pc = "wait" /\ messages' = Append(messages, HumanMessage(LastMessage'.content)))
      /\ (active_flow' # active_flow => pc = "router")
      /\ (pc' = "tools" =>
            /\ pc = "agent"
            /\ LastMessage'.type = "ai"
            /\ LastMessage'.tool_calls # << >>
            /\ ~is_call_over') ]_vars

\* C24 witness: the Executor runs again after a tool cycle, in the flow the Router
\* chose for the message
C24_Witness ==
  /\ pc = "agent"
  /\ dispatched # << >>
  /\ active_flow = CARD_ATM_ISSUES
  /\ ExecutorPassesThisTurn = 1

\* C25: a run of the tools node appends to the transcript exactly one ToolMessage
\* for each tool call of the last AIMessage, with that call's id and name, in the
\* order of the calls, and hands over to the Gate.
C25_OneResultPerCallInOrder ==
  [][ pc = "tools" =>
        LET calls == LastMessage.tool_calls
        IN  /\ Len(messages') = Len(messages) + Len(calls)
            /\ SubSeq(messages', 1, Len(messages)) = messages
            /\ \A k \in 1..Len(calls) :
                 /\ messages'[Len(messages) + k].type = "tool"
                 /\ messages'[Len(messages) + k].tool_call_id = calls[k].id
                 /\ messages'[Len(messages) + k].name = calls[k].name
            /\ pc' = "gate" ]_vars

\* C25 witness: the tools node has answered a response with two tool calls
C25_Witness ==
  /\ pc = "gate"
  /\ Len(dispatched) = 2
  /\ messages[Len(messages) - 2].type = "ai"
  /\ messages[Len(messages) - 1].tool_call_id = messages[Len(messages) - 2].tool_calls[1].id
  /\ LastMessage.tool_call_id = messages[Len(messages) - 2].tool_calls[2].id

\* C26: every step leaves the previous transcript as a prefix of the new one.
C26_TranscriptAppendOnly ==
  [][ /\ Len(messages') >= Len(messages)
      /\ SubSeq(messages', 1, Len(messages)) = messages ]_vars

\* C26 witness: the transcript holds a user message, a Gate directive, a response
\* with one tool call, its result, and a later response that requested t_end_call
C26_Witness ==
  /\ AfterExecutor
  /\ dispatched # << >>
  /\ \E i \in 1..Len(messages) : messages[i].type = "system"
  /\ \E i \in 1..Len(messages) :
       /\ messages[i].type = "ai"
       /\ i < Len(messages)
       /\ messages[i + 1].type = "tool"
       /\ Len(messages[i].tool_calls) = 1
  /\ "t_end_call" \in ToolNames(response.tool_calls)

\* C27: a Gate pass appends exactly one SystemMessage with the verification
\* directive when the active flow is sensitive, is_verified is false and the last
\* message is not a ToolMessage with the success text; otherwise it leaves the
\* transcript as it is.
C27_GateDirective ==
  [][ pc = "gate" =>
        messages' = IF /\ is_sensitive_flow(prompts, active_flow)
                       /\ ~is_verified
                       /\ ~JustVerified(messages)
                    THEN Append(messages, SystemMessage(VERIFICATION_DIRECTIVE))
                    ELSE messages ]_vars

\* C27 witness: after a failed verification in a sensitive flow the Gate has
\* appended the directive again
C27_Witness ==
  /\ pc = "agent"
  /\ ~is_verified
  /\ is_sensitive_flow(prompts, active_flow)
  /\ LastMessage = SystemMessage(VERIFICATION_DIRECTIVE)
  /\ messages[Len(messages) - 1].type = "tool"
  /\ Cardinality({i \in 1..Len(messages) : messages[i].type = "system"}) = 2

\* C28: a Router pass that returns applies the first rule that matches: with no
\* user message it keeps active_flow; a keyword match sets the mapped flow, also
\* for an utterance that looks like a continuation; otherwise, in a flow other
\* than 'general', a continuation keeps active_flow; the generation service is
\* asked in none of these cases and in every other case.
C28_RouterRuleOrder ==
  [][ (pc = "router" /\ pc' = "gate") =>
        LET h == LastHuman(messages)
        IN  IF h = NoneRec
            THEN active_flow' = active_flow /\ classification' = NoneVal
            ELSE IF classify_by_keywords(h.content) # NoneVal
            THEN active_flow' = classify_by_keywords(h.content) /\ classification' = NoneVal
            ELSE IF active_flow # GENERAL /\ is_continuation(h.content)
            THEN active_flow' = active_flow /\ classification' = NoneVal
            ELSE classification' # NoneVal ]_vars

\* C28 witness: in account_servicing a closing remark was taken as a continuation:
\* the flow was kept and the generation service was not asked
C28_Witness ==
  /\ pc = "gate"
  /\ active_flow = ACCOUNT_SERVICING
  /\ classification = NoneVal
  /\ LastHuman(messages).content = <<"T","h","a","n","k","s",","," ","b","y","e">>
  /\ is_continuation(LastHuman(messages).content)

\* the transcript holds the result of a t_verify_identity call that succeeded
VerifyToolSucceeded ==
  \E i \in 1..Len(messages) :
    /\ messages[i].type = "tool"
    /\ messages[i].name = "t_verify_identity"
    /\ Contains(messages[i].content, VERIFIED_MARK)

\* C29: the session is verified, or has a customer_id, only if an earlier
\* t_verify_identity call of the session succeeded; the result of no other tool
\* verifies the session or sets customer_id.
C29_VerifiedOnlyByVerifyTool ==
  (is_verified \/ customer_id # NoneVal) => VerifyToolSucceeded

SessionState(c) ==
  IF c = conn
  THEN [messages |-> messages, active_flow |-> active_flow, is_verified |-> is_verified,
        customer_id |-> customer_id, is_call_over |-> is_call_over]
  ELSE LET f == sessions[session_key(c)]
       IN  [messages |-> f.messages, active_flow |-> f.active_flow,
            is_verified |-> f.is_verified, customer_id |-> f.customer_id,
            is_call_over |-> f.is_call_over]

\* C22: every step of the running connection, and its suspension, leaves the
\* transcript, active_flow, is_verified, customer_id and is_call_over of the other
\* connection's session as they were.
C22_SessionsIsolated ==
  [][ \A c \in Connections : c # conn => SessionState(c)' = SessionState(c) ]_vars

\* C22 witness: connection A has been verified while connection B, resumed and
\* suspended before, is in the middle of a turn in another flow, unverified
C22_Witness ==
  /\ conn = "A"
  /\ is_verified
  /\ customer_id = <<"C","0","0","1">>
  /\ active_flow = CARD_ATM_ISSUES
  /\ LET b == sessions[session_key("B")]
     IN  /\ b.pc = "agent"
         /\ b.messages # << >>
         /\ b.active_flow = ACCOUNT_SERVICING
         /\ ~b.is_verified
         /\ b.customer_id = NoneVal
         /\ ~b.is_call_over

\* C31: every tool the tools node dispatches belongs to the tools that
\* get_tools_for_flow gives for the flow that was active when it ran.
C31_DispatchedToolsPermitted ==
  \A i \in 1..Len(dispatched) :
    LET permitted == get_tools_for_flow(prompts, dispatched[i].active_flow)
    IN  dispatched[i].name \in {permitted[k] : k \in 1..Len(permitted)}

\* C32: whatever configuration was loaded, active_flow is 'general' or a flow of
\* the loaded configuration after every Router pass (and so at every moment of a
\* session, which starts in 'general').
C32_ActiveFlowRegistered ==
  active_flow \in RegisteredFlows

\* the card of the customers list custs with this card id is blocked
CardBlocked(custs, card_id) ==
  \E k \in 1..Len(custs) : custs[k].card_id = card_id /\ custs[k].card_status = <<"b","l","o","c","k","e","d">>

\* C33: when two block_card calls for two different existing cards have both
\* returned True, both cards are blocked in the customers file.
C33_NoLostBlock ==
  \A v, w \in Workers :
    (/\ v # w
     /\ workers[v].pc = "done" /\ workers[v].op.name = "block_card" /\ workers[v].ok
     /\ workers[w].pc = "done" /\ workers[w].op.name = "block_card" /\ workers[w].ok
     /\ workers[v].op.arg # workers[w].op.arg)
    => (/\ file_state = "complete"
        /\ CardBlocked(customers, workers[v].op.arg)
        /\ CardBlocked(customers, workers[w].op.arg))

\* the reading functions of backend/tools.py
StoreReads ==
  {"verify_identity", "get_account_balance", "get_recent_transactions", "get_customer_by_id"}

\* C34: a reading function that runs while a block_card call writes returns without
\* an exception and has read a complete customers list: the list as it was before
\* the write or as it is after it.
C34_ReadsSeeCompleteStore ==
  \A w \in Workers :
    (workers[w].pc = "done" /\ workers[w].op.name \in StoreReads) =>
      /\ ~workers[w].raised
      /\ \E ids \in SUBSET {<<"C","0","0","1">>, <<"C","0","0","2">>} : workers[w].local = BlockedStore(SeedCustomers, ids)

\* the permission grant of the directive for the customer id cid
GrantMark == <<"[","S","Y","S","T","E","M"," ","U","P","D","A","T","E","]",":"," ","U","s","e","r"," ","i","s"," ","V","E","R","I","F","I","E","D">>
GrantFor(cid) == <<"[","S","Y","S","T","E","M"," ","U","P","D","A","T","E","]",":"," ","U","s","e","r"," ","i","s"," ","V","E","R","I","F","I","E","D"," ","(","C","u","s","t","o","m","e","r"," ","I","D",":"," ">> \o IdText(cid) \o <<")">>
ToolFormsHeader == <<"T","o","o","l"," ","U","s","a","g","e"," ","E","x","a","m","p","l","e","s",":">>

\* the tool-invocation form of the grant for a tool, for the customer id cid
ToolForm(name, cid) == ToolNameText[name] \o <<"(","c","u","s","t","o","m","e","r","_","i","d","=","'">> \o IdText(cid) \o <<"'">>

\* the flow's instruction lists as the configuration gives them
PreList == Get(get_flow_instructions(prompts, active_flow), "pre_verification", << >>)
PostList == Get(get_flow_instructions(prompts, active_flow), "post_verification", << >>)
ListUsed(items) == \E i \in 1..Len(items) : Contains(sys_msg, items[i])
ListWhole(items) == \A i \in 1..Len(items) : Contains(sys_msg, <<"\n","-"," ">> \o items[i])

\* C35: the directive contains the permission grant, naming the customer id and the
\* invocation forms of the flow's account tools, exactly when is_verified is true;
\* the directive of an unverified session has no grant, carries the flow's
\* pre-verification list and nothing of its post-verification list.
C35_GrantIffVerified ==
  sys_msg # NoneVal =>
    /\ Contains(sys_msg, GrantMark) <=> is_verified
    /\ is_verified =>
         /\ Contains(sys_msg, GrantFor(customer_id))
         /\ Contains(sys_msg, ToolFormsHeader)
         /\ \A name \in {"t_get_balance", "t_block_card", "t_get_transactions"} :
              (\E i \in 1..Len(get_tools_for_flow(prompts, active_flow)) :
                  get_tools_for_flow(prompts, active_flow)[i] = name)
                => Contains(sys_msg, ToolForm(name, customer_id))
    /\ ~is_verified =>
         /\ ~Contains(sys_msg, ToolFormsHeader)
         /\ ~ListUsed(PostList)
         /\ ListWhole(PreList)

\* C35 witness: the directive of an unverified session in a flow that has both lists
C35_Witness ==
  /\ sys_msg # NoneVal
  /\ ~is_verified
  /\ PreList # << >>
  /\ PostList # << >>
  /\ ListWhole(PreList)

\* C36: after the configuration document was replaced and reloaded, a pass of the
\* Router leaves a flow registered in the reloaded document (or 'general'), a pass of
\* the Gate asks for verification exactly in the flows the reloaded document marks,
\* and a pass of the Executor binds the tools the reloaded document permits the flow.
C36_TurnsUseReloadedConfiguration ==
  [][/\ (pc = "router" /\ pc' = "gate")
          => active_flow' \in DOMAIN flow_tools(settings_PROMPTS)
     /\ (pc = "agent" /\ pc' \in {"tools", "respond"})
          => bound_tools' = get_tools_for_flow(settings_PROMPTS, active_flow)]_vars

\* C37: when the graph returns with is_call_over true, the client is sent exactly one
\* message with a non-empty text, the agent's text when it has one and a generated
\* goodbye otherwise, and the loop ends with the connection closed.
C37_ClosingUtteranceThenClose ==
  [][(pc = "respond" /\ is_call_over)
       => /\ pc' = "closed"
          /\ Len(sent') = 1
          /\ sent'[1].content # << >>
          /\ IF messages[Len(messages)].content # << >>
             THEN sent'[1].content = messages[Len(messages)].content
             ELSE sent'[1].content \in generate_contextual_response("closing_goodbye")]_vars

\* C37 witness: the call ended on a response without text and a goodbye was sent
C37_Witness ==
  /\ pc = "closed"
  /\ is_call_over
  /\ messages[Len(messages)].content = << >>
  /\ Len(sent) = 1
  /\ sent[1].content # << >>

\* a step of the loop on a timeout signal, and on an inbound message that is none
TimeoutStep == pc = "wait" /\ silence_count' = silence_count + 1
InboundStep == pc = "wait" /\ silence_count' # silence_count + 1 /\ pc' # "closed"

\* C38: the first and the second consecutive timeout signal each send one nudge and
\* leave the session open, the transcript as it was and the graph not started; the
\* third sends one closing message and ends the session; an inbound message that is
\* no timeout signal resets the count of consecutive timeouts to zero.
C38_SilenceHandling ==
  [][/\ TimeoutStep =>
          /\ messages' = messages
          /\ pc' # "router"
          /\ Len(sent') = 1
          /\ IF silence_count < 2
             THEN /\ pc' = "wait"
                  /\ sent'[1].content \in generate_contextual_response("nudge")
             ELSE /\ silence_count = 2
                  /\ pc' = "closed"
                  /\ sent'[1].content \in generate_contextual_response("closing_silence")
     /\ InboundStep => silence_count' = 0]_vars

\* C38 witness: the session was closed by the third timeout in a row, after a turn
C38_Witness ==
  /\ pc = "closed"
  /\ silence_count = 3
  /\ messages # << >>
  /\ ~is_call_over

\* the tool calls of calls that do not request t_end_call, in their order
RECURSIVE OtherCallsOf(_)
OtherCallsOf(calls) ==
  IF calls = << >> THEN << >>
  ELSE IF Head(calls).name = "t_end_call" THEN OtherCallsOf(Tail(calls))
  ELSE << Head(calls) >> \o OtherCallsOf(Tail(calls))

\* C39: the AIMessage the Executor appends keeps every tool call of the response that
\* does not request t_end_call, with name, arguments and id as they were and in the
\* original order; nothing but t_end_call requests is removed, and a response without
\* tool calls is appended with its text and without tool calls.
C39_FilterRemovesOnlyEndCall ==
  AfterExecutor =>
    /\ LastMessage.type = "ai"
    /\ LastMessage.content = response.content
    /\ OtherCallsOf(LastMessage.tool_calls) = OtherCallsOf(response.tool_calls)
    /\ \/ LastMessage.tool_calls = response.tool_calls
       \/ LastMessage.tool_calls = OtherCallsOf(response.tool_calls)
    /\ response.tool_calls = << >> => LastMessage.tool_calls = << >>

\* C39 witness: a response asked for two other tools; both calls were kept in order
C39_Witness ==
  /\ AfterExecutor
  /\ Len(response.tool_calls) = 2
  /\ ~HasEndCall(response.tool_calls)
  /\ LastMessage.tool_calls = response.tool_calls
  /\ response.tool_calls[1].id # response.tool_calls[2].id

====
